---- MODULE Spec2Model ----
(***************************************************************************)
(* Verification model of @syntrojs/logger: the correlation context         *)
(* (src/context/Context.ts), the field filter                              *)
(* (src/compliance/LoggingMatrix.ts), the sanitizer                        *)
(* (src/sanitization/SanitizationEngine.ts), the masking engine            *)
(* (src/masking/MaskingEngine.ts) and the logger (src/Logger.ts).          *)
(*                                                                         *)
(* Each component has its own specification (SpecCtx, SpecFilter, ...)     *)
(* over its own variables; the variables of the other components keep      *)
(* their initial value under it.                                           *)
(***************************************************************************)
EXTENDS Integers, Sequences, FiniteSets, TLC

VARIABLES
  \* ---- correlation context (AsyncContext) ----
  depth,        \* depth[t]: number of run/runAsync scopes task t is inside
  maps,         \* maps[t][d]: the Map created by the d-th nested run of task t
  autoGenerate, \* AsyncContext.config.autoGenerate
  snap,         \* history: snap[t][d] = content of scope d when scope d+1 was entered
  mine,         \* history: mine[t][d] = what task t itself put into its scope d
  ev,           \* history: ev[t] = the last scope event of task t
  \* ---- field filter (FieldFilter) ----
  matrix,       \* FieldFilter.matrix
  fCall,        \* the last filterContext call since the matrix was set: arguments, result
  \* ---- masking engine (MaskingEngine) ----
  rules,        \* MaskingEngine.rules
  initialized,  \* MaskingEngine.initialized
  safeRegexLib, \* whether require('safe-regex') finds the optional package
  enableDefaultRules, \* the constructor option of the masking engine
  accepted,     \* history: every rule addRule has accepted, in order
  mCall,        \* the last addRule call: its pattern, the list before it, its outcome
  pCall,        \* the last process call since the rule list was set: argument, result
  scan,         \* a process call in progress: its record, its position, the lists it saw
  \* ---- sanitizer (SanitizationEngine) ----
  sMasking,     \* whether the SanitizationEngine was given a masking engine
  sCall,        \* the last process call: its argument and its result
  \* ---- logger (Logger) ----
  bindings,        \* Logger.bindings
  loggerLevel,     \* Logger.level
  useAsyncContext, \* Logger.useAsyncContext
  sanitizationEngine, \* whether Logger.sanitizationEngine is set
  fieldFilter,     \* whether Logger.fieldFilter is set; its matrix is the variable matrix
  transport,       \* Logger.transport
  maskingEngine,   \* Logger.maskingEngine: "none", the engine of the sanitizer
                   \* ("shared"), or an engine the sanitizer does not hold ("own")
  ownRules,        \* the rules of Logger.maskingEngine when it is "own"
  closeStarted,    \* the transports whose close() the logger has called
  failedBefore,    \* history: transport.log has thrown during an earlier log call
  lCall,           \* the last call of a logging method: its arguments and its outcome
  dCall,           \* the last call of child/withX: the logger before and after, the result
  rCall,           \* the last reconfigure call: its options and its outcome
  parentTransport  \* the transport of the logger child() was last called on

ctxVars == <<depth, maps, autoGenerate, snap, mine, ev>>
filterVars == <<matrix, fCall>>
maskVars ==
  <<rules, initialized, safeRegexLib, enableDefaultRules, accepted, mCall, pCall, scan>>
sanVars == <<sMasking, sCall>>

logConfig == <<bindings, loggerLevel, useAsyncContext, sanitizationEngine, fieldFilter,
               transport, maskingEngine, ownRules>>
logVars == <<logConfig, closeStarted, failedBefore, lCall, dCall, rCall, parentTransport>>

vars == <<ctxVars, filterVars, maskVars, sanVars, logVars>>

\* --------------------------------------------------------------------------
\* Bounds
\* --------------------------------------------------------------------------
MaxDepth == 2
MaxStrLen == 3
MaxRules == 2

\* --------------------------------------------------------------------------
\* Correlation context: src/src/context/Context.ts
\* --------------------------------------------------------------------------
Tasks == {"A", "B"}
Nesting == {"A"}                                \* the tasks that enter scopes inside scopes
DepthLimit(t) == IF t \in Nesting THEN MaxDepth ELSE 1
Absent == [o |-> "-", v |-> "absent"]           \* Map.get of a missing key: undefined
correlationIdKey == "correlationId"
CtxKeys == {correlationIdKey, "k"}
UserVals == {"outer", "inner"}
GenIds == {"u1", "u2"}                          \* results of randomUUID()
NoStore == <<"-", 0>>                           \* getStore() outside any scope
Val(t, v) == [o |-> t, v |-> v]                 \* a value, tagged with the task that wrote it
EmptyMap == [k \in CtxKeys |-> Absent]          \* new Map()
InitialDatas(t) ==
  {EmptyMap} \cup {[EmptyMap EXCEPT ![k] = Val(t, v)] : k \in {"k"}, v \in UserVals}

\* AsyncLocalStorage.getStore(): the Map of the innermost scope the calling
\* task is executing in.
\* getStoreShared: one current store for all tasks, as a module-level variable
\* in place of AsyncLocalStorage would give.
getStoreShared(t) ==
  IF \E u \in Tasks : depth[u] > 0
    THEN LET u == CHOOSE u \in Tasks : depth[u] > 0 IN <<u, depth[u]>>
    ELSE NoStore

\* getStoreDefault: outside any scope a default store of the task is current
getStoreDefault(t) == IF depth[t] = 0 THEN <<t, 1>> ELSE <<t, depth[t]>>

getStore(t) == IF depth[t] = 0 THEN NoStore ELSE <<t, depth[t]>>

Content(ref) == IF ref = NoStore THEN EmptyMap ELSE maps[ref[1]][ref[2]]

\* AsyncContext.get / getAll
get(t, k) == Content(getStore(t))[k]
getAll(t) == Content(getStore(t))
isActive(t) == getStore(t) # NoStore

\* The Map a run/runAsync call creates from initialData.
\* contextMapInherit: a Map that starts from the enclosing scope's entries.
contextMapInherit(t, initialData) ==
  [k \in CtxKeys |-> IF initialData[k] # Absent THEN initialData[k] ELSE getAll(t)[k]]

contextMap(t, initialData) == initialData

WriteStore(ref, content) ==
  IF ref = NoStore THEN maps
  ELSE [maps EXCEPT ![ref[1]][ref[2]] = content]

Note(t, content) ==
  IF depth[t] = 0 THEN mine ELSE [mine EXCEPT ![t][depth[t]] = content]

\* AsyncContext.run / runAsync: storage.run(contextMap, fn) entered
Run(t, initialData) ==
  /\ depth[t] < DepthLimit(t)
  /\ LET m == contextMap(t, initialData) IN
       /\ maps' = [maps EXCEPT ![t][depth[t] + 1] = m]
       /\ mine' = [mine EXCEPT ![t][depth[t] + 1] = initialData]
  /\ snap' = [snap EXCEPT ![t][depth[t] + 1] = getAll(t)]
  /\ depth' = [depth EXCEPT ![t] = @ + 1]
  /\ ev' = [ev EXCEPT ![t] = [type |-> "enter", expect |-> initialData,
                               inner |-> EmptyMap, id |-> "", auto |-> TRUE]]
  /\ UNCHANGED autoGenerate

\* storage.run returns (fn finished): the previous store is current again
Exit(t) ==
  /\ depth[t] > 0
  /\ depth' = [depth EXCEPT ![t] = @ - 1]
  /\ maps' = [maps EXCEPT ![t][depth[t]] = EmptyMap]
  /\ mine' = [mine EXCEPT ![t][depth[t]] = EmptyMap]
  /\ snap' = [snap EXCEPT ![t][depth[t]] = EmptyMap]
  /\ ev' = [ev EXCEPT ![t] = [type |-> "exit", expect |-> snap[t][depth[t]],
                               inner |-> getAll(t), id |-> "", auto |-> TRUE]]
  /\ UNCHANGED autoGenerate

\* AsyncContext.set(key, value)
Set(t, k, v) ==
  /\ maps' = WriteStore(getStore(t), [Content(getStore(t)) EXCEPT ![k] = Val(t, v)])
  /\ mine' = Note(t, [mine[t][depth[t]] EXCEPT ![k] = Val(t, v)])
  /\ ev' = [ev EXCEPT ![t] = [type |-> "other", expect |-> EmptyMap, inner |-> EmptyMap,
                               id |-> "", auto |-> TRUE]]
  /\ UNCHANGED <<depth, autoGenerate, snap>>

\* AsyncContext.clear()
Clear(t) ==
  /\ maps' = WriteStore(getStore(t), EmptyMap)
  /\ mine' = Note(t, EmptyMap)
  /\ ev' = [ev EXCEPT ![t] = [type |-> "other", expect |-> EmptyMap, inner |-> EmptyMap,
                               id |-> "", auto |-> TRUE]]
  /\ UNCHANGED <<depth, autoGenerate, snap>>

\* store.set(AsyncContext.correlationIdKey, correlationId) in getCorrelationId
\* storeCorrelationIdNowhere: the generated id is returned and not stored
storeCorrelationIdNowhere(t, store, uuid) == maps

storeCorrelationId(t, store, uuid) ==
  WriteStore(store, [Content(store) EXCEPT ![correlationIdKey] = Val(t, uuid)])

\* AsyncContext.getCorrelationId(), with uuid the value randomUUID() returns;
\* ev records the store's content before the call, the id the call returns
\* and config.autoGenerate
GetCorrelationId(t, uuid) ==
  /\ LET store == getStore(t)
         cid == Content(store)[correlationIdKey]
         gen == store # NoStore /\ cid = Absent /\ autoGenerate
     IN /\ maps' = IF gen THEN storeCorrelationId(t, store, uuid) ELSE maps
        /\ mine' = IF gen
                     THEN Note(t, [mine[t][depth[t]] EXCEPT
                                     ![correlationIdKey] = Val(t, uuid)])
                     ELSE mine
        /\ ev' = [ev EXCEPT ![t] =
                    [type |-> "cid", expect |-> Content(store), inner |-> EmptyMap,
                     id |-> IF store = NoStore THEN ""
                            ELSE IF gen THEN uuid
                            ELSE IF cid = Absent THEN "" ELSE cid.v,
                     auto |-> autoGenerate]]
  /\ UNCHANGED <<depth, autoGenerate, snap>>

\* AsyncContext.setCorrelationId(correlationId)
SetCorrelationId(t, correlationId) == Set(t, correlationIdKey, correlationId)

\* AsyncContext.configure({ autoGenerate })
Configure(b) ==
  /\ autoGenerate' = b
  /\ autoGenerate # b
  /\ UNCHANGED <<depth, maps, snap, mine, ev>>

CtxInit ==
  /\ depth = [t \in Tasks |-> 0]
  /\ maps = [t \in Tasks |-> [d \in 1..(MaxDepth + 1) |-> EmptyMap]]
  /\ autoGenerate = TRUE
  /\ snap = [t \in Tasks |-> [d \in 1..(MaxDepth + 1) |-> EmptyMap]]
  /\ mine = [t \in Tasks |-> [d \in 0..(MaxDepth + 1) |-> EmptyMap]]
  /\ ev = [t \in Tasks |-> [type |-> "none", expect |-> EmptyMap, inner |-> EmptyMap,
                            id |-> "", auto |-> TRUE]]

\* --------------------------------------------------------------------------
\* Field filter: src/src/compliance/LoggingMatrix.ts
\* --------------------------------------------------------------------------
MatrixKeys == {"default", "info", "error"}
FilterLevels == {"info", "warn", "error"}
AllowLists ==
  {<<>>, <<"*">>, <<"correlationId">>, <<"CORRELATIONID", "secret">>}
\* a LoggingMatrix: an object with some of the keys default/info/error
Matrices == UNION {[S -> AllowLists] : S \in SUBSET MatrixKeys}
FilterKeys == {"correlationId", "CorrelationId", "secret"}
FilterVals == {"c1", "s"}
FilterContexts == UNION {[S -> FilterVals] : S \in SUBSET FilterKeys}
EmptyObject == [k \in {} |-> "s"]

\* String.prototype.toLowerCase on the field names of the model
toLowerCase(k) ==
  IF k \in {"correlationId", "CorrelationId", "CORRELATIONID", "correlationid"}
    THEN "correlationid"
  ELSE IF k \in {"secret", "Secret", "SECRET"} THEN "secret"
  ELSE k

Elems(list) == {list[i] : i \in 1..Len(list)}

\* FieldFilter.filterContext without lower-casing the context key
filterContextCaseSensitive(m, context, level) ==
  IF DOMAIN m = {} THEN context
  ELSE IF ~(level \in DOMAIN m \/ "default" \in DOMAIN m) THEN EmptyObject
  ELSE LET fieldsToKeep == IF level \in DOMAIN m THEN m[level] ELSE m["default"]
           allowedSet == {toLowerCase(f) : f \in Elems(fieldsToKeep)}
       IN IF Len(fieldsToKeep) = 0 THEN EmptyObject
          ELSE IF "*" \in Elems(fieldsToKeep) THEN context
          ELSE [k \in {key \in DOMAIN context : key \in allowedSet} |-> context[k]]

\* FieldFilter.filterContext(context, level).  this.matrix[level] is an array
\* (truthy, also when empty) or undefined, so `||` falls back to default
\* exactly when the level has no entry.
filterContext(m, context, level) ==
  IF DOMAIN m = {} THEN context
  ELSE IF ~(level \in DOMAIN m \/ "default" \in DOMAIN m) THEN EmptyObject
  ELSE LET fieldsToKeep == IF level \in DOMAIN m THEN m[level] ELSE m["default"]
           allowedSet == {toLowerCase(f) : f \in Elems(fieldsToKeep)}
       IN IF Len(fieldsToKeep) = 0 THEN EmptyObject
          ELSE IF "*" \in Elems(fieldsToKeep) THEN context
          ELSE [k \in {key \in DOMAIN context : toLowerCase(key) \in allowedSet}
                  |-> context[k]]

NoCall == [called |-> FALSE, matrix |-> EmptyObject, context |-> EmptyObject,
           level |-> "info", result |-> EmptyObject]

\* filterContext(context, level) called on the filter
FilterContext(context, level) ==
  /\ fCall' = [called |-> TRUE, matrix |-> matrix, context |-> context,
               level |-> level,
               result |-> filterContext(matrix, context, level)]
  /\ UNCHANGED matrix

\* FieldFilter.reconfigure with this.matrix = newMatrix
filterReconfigureReplace(m, newMatrix) == newMatrix

\* the matrix FieldFilter.reconfigure(newMatrix) assigns:
\* { ...this.matrix, ...newMatrix }
filterReconfigure(m, newMatrix) ==
  [k \in DOMAIN m \cup DOMAIN newMatrix |->
     IF k \in DOMAIN newMatrix THEN newMatrix[k] ELSE m[k]]

\* FieldFilter.reconfigure(newMatrix)
FilterReconfigure(newMatrix) ==
  /\ matrix' = filterReconfigure(matrix, newMatrix)
  /\ matrix' # matrix
  /\ fCall' = NoCall

\* new FieldFilter(matrix)
FilterInit ==
  /\ matrix \in Matrices
  /\ fCall = NoCall

FilterIdle ==
  /\ matrix = EmptyObject
  /\ fCall = NoCall

\* --------------------------------------------------------------------------
\* Values: strings are sequences of characters, "ESC" is \x1b and "CSI" is
\* \u009b.  A value is [kind, id, s, kids]: kind "str" (s its characters),
\* "num", "bigint", "arr" (kids its items), "obj" (a plain object, kids its own
\* enumerable properties in key order) or "inst" (a class instance or a Date:
\* id its identity, kids its own enumerable properties).
\* --------------------------------------------------------------------------
Str(s) == [kind |-> "str", id |-> 0, s |-> s, kids |-> <<>>]
Num == [kind |-> "num", id |-> 0, s |-> <<>>, kids |-> <<>>]
BigInt == [kind |-> "bigint", id |-> 0, s |-> <<>>, kids |-> <<>>]
Arr(items) == [kind |-> "arr", id |-> 0, s |-> <<>>, kids |-> items]
Obj(props) == [kind |-> "obj", id |-> 0, s |-> <<>>, kids |-> props]
Inst(id, props) == [kind |-> "inst", id |-> id, s |-> <<>>, kids |-> props]
Prop(k, v) == [k |-> k, v |-> v]
Item(v) == [k |-> <<>>, v |-> v]

Min(a, b) == IF a < b THEN a ELSE b

\* --------------------------------------------------------------------------
\* Sanitizer: src/src/sanitization/SanitizationEngine.ts
\* --------------------------------------------------------------------------
EscChars == {"ESC", "CSI"}                                   \* [\x1b\u009b]
PrefixChars == {"[", "(", ")", "#", ";", "?"}                \* [[()#;?]
DigitChars == {"0", "1", "2", "3", "4", "5", "6", "7", "8", "9"}
FinalChars ==                                                \* [0-9A-ORZcf-nqry=><]
  DigitChars \cup {"A", "B", "C", "D", "E", "F", "G", "H", "I", "J", "K", "L", "M",
                   "N", "O", "R", "Z", "c", "f", "g", "h", "i", "j", "k", "l", "m",
                   "n", "q", "r", "y", "=", ">", "<"}

RECURSIVE RunOf(_, _, _)
\* how many characters of s from position i on belong to class
RunOf(s, i, class) ==
  IF i <= Len(s) /\ s[i] \in class THEN 1 + RunOf(s, i + 1, class) ELSE 0

\* The matchers return the position after the match, or 0 when there is none,
\* trying the alternatives in the order the backtracking engine tries them.
FinalAt(s, i) == IF i <= Len(s) /\ s[i] \in FinalChars THEN i + 1 ELSE 0

RECURSIVE TailAt(_, _), TailTry(_, _, _)
\* (?:;[0-9]{0,4})*  followed by the final byte
TailAt(s, i) ==
  IF i <= Len(s) /\ s[i] = ";"
    THEN LET r == TailTry(s, i + 1, Min(4, RunOf(s, i + 1, DigitChars)))
         IN IF r # 0 THEN r ELSE FinalAt(s, i)
    ELSE FinalAt(s, i)
TailTry(s, j, d) ==
  LET r == TailAt(s, j + d)
  IN IF r # 0 THEN r ELSE IF d = 0 THEN 0 ELSE TailTry(s, j, d - 1)

RECURSIVE DigitsTry(_, _, _)
\* [0-9]{1,4}, longest first, followed by the tail
DigitsTry(s, i, d) ==
  IF d = 0 THEN 0
  ELSE LET r == TailAt(s, i + d)
       IN IF r # 0 THEN r ELSE DigitsTry(s, i, d - 1)

\* (?:[0-9]{1,4}(?:;[0-9]{0,4})*)?  followed by the final byte
OptAt(s, i) ==
  LET r == DigitsTry(s, i, Min(4, RunOf(s, i, DigitChars)))
  IN IF r # 0 THEN r ELSE FinalAt(s, i)

RECURSIVE PrefixTry(_, _, _)
\* [[()#;?]*, longest first, followed by the rest
PrefixTry(s, i, p) ==
  LET r == OptAt(s, i + p)
  IN IF r # 0 THEN r ELSE IF p = 0 THEN 0 ELSE PrefixTry(s, i, p - 1)

\* ansiRegex matched at position i, where s[i] is ESC or CSI: the position
\* after the match
ansiRegex(s, i) ==
  LET r == PrefixTry(s, i + 1, RunOf(s, i + 1, PrefixChars))
  IN IF r # 0 THEN r ELSE i + 1

RECURSIVE ReplaceFrom(_, _)
\* data.replace(this.ansiRegex, '') from position i on
ReplaceFrom(s, i) ==
  IF i > Len(s) THEN <<>>
  ELSE IF s[i] \in EscChars
    THEN LET e == ansiRegex(s, i)
         IN IF e = i THEN <<s[i]>> \o ReplaceFrom(s, i + 1) ELSE ReplaceFrom(s, e)
    ELSE <<s[i]>> \o ReplaceFrom(s, i + 1)

RECURSIVE sanitizeRecursively(_)
\* SanitizationEngine.sanitizeRecursively(data)
sanitizeRecursively(data) ==
  IF data.kind = "str" THEN Str(ReplaceFrom(data.s, 1))
  ELSE IF data.kind = "arr"
    THEN Arr([i \in 1..Len(data.kids) |-> Item(sanitizeRecursively(data.kids[i].v))])
  ELSE IF data.kind = "obj"
    THEN Obj([i \in 1..Len(data.kids) |->
                Prop(data.kids[i].k, sanitizeRecursively(data.kids[i].v))])
  ELSE data

\* --------------------------------------------------------------------------
\* Masking engine: src/src/masking/MaskingEngine.ts
\* --------------------------------------------------------------------------
Lower(c) == IF c = "A" THEN "a" ELSE IF c = "P" THEN "p" ELSE c \* one letter lower-cased
LowerStr(s) == [i \in 1..Len(s) |-> Lower(s[i])]
RegexMeta == {"(", ")", "+", "*", "?", "|", "$", " "}

\* whether literal lit occurs in key at position i
OccursAt(lit, key, i) ==
  /\ i + Len(lit) - 1 <= Len(key)
  /\ \A j \in 1..Len(lit) : key[i + j - 1] = lit[j]

\* the alternatives of a pattern that is an alternation of literals
Alternatives(src) ==
  LET bars == {0, Len(src) + 1} \cup {i \in 1..Len(src) : src[i] = "|"}
  IN {SubSeq(src, a + 1, b - 1) :
        <<a, b>> \in {x \in bars \X bars :
                        x[1] < x[2] /\ \A c \in bars : ~(x[1] < c /\ c < x[2])}}

\* rule._compiledPattern.test(key) for the patterns of the model, compiled
\* case-insensitive: an alternation of literals matches a key that contains
\* one of them; (a+)+$ matches a key that ends in a; (a*)* matches every key
RegexTest(src, key) ==
  IF src = <<"(", "a", "+", ")", "+", "$">>
    THEN Len(key) > 0 /\ Lower(key[Len(key)]) = "a"
  ELSE IF src = <<"(", "a", "*", ")", "*">> THEN TRUE
  ELSE \E lit \in Alternatives(src) :
         \E i \in 1..(Len(key) + 1) : OccursAt(LowerStr(lit), LowerStr(key), i)

\* rule._compiledPattern.test(key) and the lastIndex it leaves: a pattern
\* without the g flag tests the whole key and leaves lastIndex alone; with the
\* g flag (literal patterns) the search starts at lastIndex, a match moves
\* lastIndex to its end and a failure resets it to 0
regexTest(rule, key) ==
  IF ~rule.global
    THEN [matched |-> RegexTest(rule.pattern, key), lastIndex |-> rule.lastIndex]
  ELSE LET starts == {i \in (rule.lastIndex + 1)..(Len(key) + 1) :
                        OccursAt(LowerStr(rule.pattern), LowerStr(key), i)}
       IN IF starts = {} THEN [matched |-> FALSE, lastIndex |-> 0]
          ELSE [matched |-> TRUE,
                lastIndex |-> (CHOOSE i \in starts : \A j \in starts : i <= j) - 1
                                + Len(rule.pattern)]

RECURSIVE findMatchingRuleFrom(_, _, _)
\* this.rules.find((rule) => rule._compiledPattern?.test(key)) from rule i on:
\* the index of the first rule whose test succeeds (0 when there is none) and
\* the rules as the tests leave them
findMatchingRuleFrom(rs, key, i) ==
  IF i > Len(rs) THEN [rule |-> 0, rs |-> rs]
  ELSE LET step(t) ==
             IF t.matched
               THEN [rule |-> i, rs |-> [rs EXCEPT ![i].lastIndex = t.lastIndex]]
               ELSE findMatchingRuleFrom([rs EXCEPT ![i].lastIndex = t.lastIndex], key, i + 1)
       IN step(regexTest(rs[i], key))

\* the last rule whose test succeeds, instead of the first
findMatchingRuleLast(rs, key) ==
  LET matching == {i \in 1..Len(rs) : regexTest(rs[i], key).matched}
  IN [rule |-> IF matching = {} THEN 0
               ELSE CHOOSE i \in matching : \A j \in matching : j <= i,
      rs |-> rs]

\* MaskingEngine.findMatchingRule(key)
findMatchingRule(rs, key) == findMatchingRuleFrom(rs, key, 1)

Repeat(c, n) == [i \in 1..n |-> c]

\* MaskingEngine.maskPassword
maskPassword(value, rule) == Repeat(rule.maskChar, Len(value))

\* MaskingEngine.maskDefault
maskDefault(value, rule) ==
  IF rule.preserveLength THEN Repeat(rule.maskChar, Len(value))
  ELSE Repeat(rule.maskChar, Min(Len(value), 8))

\* value.replace(/\D/g, ''), and clean.slice(-4)
Clean(value) == SelectSeq(value, LAMBDA c : c \in DigitChars)
Last4(clean) == SubSeq(clean, IF Len(clean) > 4 THEN Len(clean) - 3 ELSE 1, Len(clean))

\* value.replace(/\d/g, (match, offset) => digitIndex < clean.length - 4 ?
\* maskChar : match), digitIndex the number of digits before offset
MaskDigits(value, maskChar) ==
  [i \in 1..Len(value) |->
     IF value[i] \in DigitChars /\ Len(Clean(SubSeq(value, 1, i - 1))) < Len(Clean(value)) - 4
       THEN maskChar ELSE value[i]]

\* MaskingEngine.maskCreditCard
maskCreditCard(value, rule) ==
  IF rule.preserveLength THEN MaskDigits(value, rule.maskChar)
  ELSE Repeat(rule.maskChar, 4) \o <<"-">> \o Repeat(rule.maskChar, 4) \o <<"-">>
         \o Repeat(rule.maskChar, 4) \o <<"-">> \o Last4(Clean(value))

\* MaskingEngine.maskSSN
maskSSN(value, rule) ==
  IF rule.preserveLength THEN MaskDigits(value, rule.maskChar)
  ELSE <<"*", "*", "*", "-", "*", "*", "-">> \o Last4(Clean(value))

\* value.indexOf('@'), -1 when there is none
IndexOfAt(value) ==
  IF \E i \in 1..Len(value) : value[i] = "@"
    THEN (CHOOSE i \in 1..Len(value) :
            value[i] = "@" /\ \A j \in 1..(i - 1) : value[j] # "@") - 1
    ELSE -1

\* MaskingEngine.maskEmail
maskEmail(value, rule) ==
  LET atIndex == IndexOfAt(value)
      username == SubSeq(value, 1, atIndex)
      domain == SubSeq(value, atIndex + 1, Len(value))
  IN IF atIndex <= 0 THEN maskDefault(value, rule)
     ELSE IF rule.preserveLength
       THEN (IF Len(username) > 1
               THEN <<username[1]>> \o Repeat(rule.maskChar, Len(username) - 1)
               ELSE Repeat(rule.maskChar, Len(username))) \o domain
     ELSE <<username[1]>> \o <<"*", "*", "*">> \o domain

\* MaskingEngine.maskPhone
maskPhone(value, rule) ==
  IF rule.preserveLength THEN MaskDigits(value, rule.maskChar)
  ELSE Repeat(rule.maskChar, 3) \o <<"-">> \o Repeat(rule.maskChar, 3) \o <<"-">>
         \o Last4(Clean(value))

\* MaskingEngine.maskToken throws: maskChar.repeat(value.length - 9) with a
\* negative count is a RangeError
maskTokenThrows(value, rule) == rule.preserveLength /\ Len(value) - 9 < 0

\* MaskingEngine.maskToken, where it returns
maskToken(value, rule) ==
  IF rule.preserveLength
    THEN SubSeq(value, 1, Min(4, Len(value))) \o Repeat(rule.maskChar, Len(value) - 9)
           \o SubSeq(value, Len(value) - 4, Len(value))
  ELSE IF Len(value) <= 8 THEN Repeat(rule.maskChar, Len(value))
  ELSE SubSeq(value, 1, 4) \o <<".", ".", ".">> \o SubSeq(value, Len(value) - 4, Len(value))

\* MaskingEngine.applyStrategy throws; no rule of the model has a customMask
applyStrategyThrows(value, rule) ==
  rule.strategy = "token" /\ maskTokenThrows(value, rule)

\* MaskingEngine.applyStrategy, where it returns: the strategy map, and
\* maskDefault for a strategy that is not in it
applyStrategy(value, rule) ==
  IF rule.strategy = "credit_card" THEN maskCreditCard(value, rule)
  ELSE IF rule.strategy = "ssn" THEN maskSSN(value, rule)
  ELSE IF rule.strategy = "email" THEN maskEmail(value, rule)
  ELSE IF rule.strategy = "phone" THEN maskPhone(value, rule)
  ELSE IF rule.strategy = "password" THEN maskPassword(value, rule)
  ELSE IF rule.strategy = "token" THEN maskToken(value, rule)
  ELSE maskDefault(value, rule)

RECURSIVE applyMaskingRules(_, _)
RECURSIVE applyMaskingRulesFrom(_, _, _, _)
\* MaskingEngine.applyMaskingRules(data): every non-null, non-array value of
\* type 'object' (a plain object, a class instance, a Date) is rebuilt as a
\* plain object from its own enumerable properties. The result is the masked
\* copy (out), the rules as the tests leave them (rs), and whether a strategy
\* threw (threw).
applyMaskingRules(rs, data) ==
  IF data.kind \in {"str", "num", "bigint"} THEN [out |-> data, rs |-> rs, threw |-> FALSE]
  ELSE LET wrap(r) == [out |-> IF data.kind = "arr" THEN Arr(r.out) ELSE Obj(r.out),
                       rs |-> r.rs, threw |-> r.threw]
       IN wrap(applyMaskingRulesFrom(rs, data, 1, <<>>))

\* the map over the items, or the reduce over the keys, from position i on
applyMaskingRulesFrom(rs, data, i, acc) ==
  IF i > Len(data.kids) THEN [out |-> acc, rs |-> rs, threw |-> FALSE]
  ELSE LET key == data.kids[i].k
           value == data.kids[i].v
           item(r) == IF r.threw THEN r
                      ELSE applyMaskingRulesFrom(r.rs, data, i + 1, Append(acc, Item(r.out)))
           nested(r) == IF r.threw THEN r
                        ELSE applyMaskingRulesFrom(r.rs, data, i + 1,
                                                   Append(acc, Prop(key, r.out)))
           string(f) ==
             IF f.rule = 0
               THEN applyMaskingRulesFrom(f.rs, data, i + 1, Append(acc, Prop(key, value)))
             ELSE IF applyStrategyThrows(value.s, f.rs[f.rule])
               THEN [out |-> acc, rs |-> f.rs, threw |-> TRUE]
             ELSE applyMaskingRulesFrom(f.rs, data, i + 1,
                    Append(acc, Prop(key, Str(applyStrategy(value.s, f.rs[f.rule])))))
       IN IF data.kind = "arr" THEN item(applyMaskingRules(rs, value))
          ELSE IF value.kind = "str" THEN string(findMatchingRule(rs, key))
          ELSE IF value.kind \in {"arr", "obj", "inst"} THEN nested(applyMaskingRules(rs, value))
          ELSE applyMaskingRulesFrom(rs, data, i + 1, Append(acc, Prop(key, value)))

\* MaskingEngine.process(meta): the masked copy when it is a non-array object,
\* meta itself when it is not or when masking threw
maskingProcess(rs, meta) ==
  LET result(masked) ==
        IF ~masked.threw /\ masked.out.kind \in {"obj", "inst"} THEN masked.out ELSE meta
  IN result(applyMaskingRules(rs, meta))

\* SanitizationEngine.process with the masking engine called before
\* sanitizeRecursively
sanitizerProcessMaskFirst(masking, rs, meta) ==
  IF masking THEN sanitizeRecursively(maskingProcess(rs, meta))
  ELSE sanitizeRecursively(meta)

\* SanitizationEngine.process(meta)
sanitizerProcess(masking, rs, meta) ==
  LET sanitized == sanitizeRecursively(meta)
  IN IF masking THEN maskingProcess(rs, sanitized) ELSE sanitized


\* --------------------------------------------------------------------------
\* Masking engine: rule validation and the rule list
\* --------------------------------------------------------------------------
QuantChars == {"+", "*"}
SpaceChars == {" "}                                          \* \s
WordChars ==                                                 \* \w
  DigitChars \cup {"a", "b", "c", "d", "e", "f", "g", "h", "i", "j", "k", "l", "m",
                   "n", "o", "p", "q", "r", "s", "t", "u", "v", "w", "x", "y", "z",
                   "A", "P", "_"}
AllIn(s, a, b, class) == \A x \in a..b : s[x] \in class
NoClose(s, a, b) == \A x \in a..b : s[x] # ")"

\* /\([^)]*Q(?:\+|\*|\?)\)[\+\*]/ for Q one of + * ?
NestedQuantifierAt(s, q) ==
  \E i \in 1..Len(s) :
    /\ s[i] = "("
    /\ \E j \in (i + 1)..(Len(s) - 3) :
         /\ s[j] = q
         /\ NoClose(s, i + 1, j - 1)
         /\ s[j + 1] \in {"+", "*", "?"}
         /\ s[j + 2] = ")"
         /\ s[j + 3] \in QuantChars

\* /[\+\*]\s*[\+\*]/ and /\?\s*[\+\*]/: a quantifier on a quantifier
QuantifierOn(s, first) ==
  \E i \in 1..Len(s) :
    /\ s[i] \in first
    /\ \E j \in (i + 1)..Len(s) :
         /\ s[j] \in QuantChars
         /\ AllIn(s, i + 1, j - 1, SpaceChars)

\* /\([^)]*\|\s*\w+\+\s*\|\s*\w+\)[\+\*]/
AlternationWithRepetition(s) ==
  \E i \in 1..Len(s) :
    /\ s[i] = "("
    /\ \E b1 \in (i + 1)..Len(s) :
         /\ s[b1] = "|"
         /\ NoClose(s, i + 1, b1 - 1)
         /\ \E a1 \in (b1 + 1)..Len(s) :
              /\ AllIn(s, b1 + 1, a1 - 1, SpaceChars)
              /\ \E pl \in (a1 + 1)..Len(s) :
                   /\ s[pl] = "+"
                   /\ AllIn(s, a1, pl - 1, WordChars)
                   /\ \E b2 \in (pl + 1)..Len(s) :
                        /\ s[b2] = "|"
                        /\ AllIn(s, pl + 1, b2 - 1, SpaceChars)
                        /\ \E a2 \in (b2 + 1)..Len(s) :
                             /\ AllIn(s, b2 + 1, a2 - 1, SpaceChars)
                             /\ \E c \in (a2 + 1)..(Len(s) - 1) :
                                  /\ s[c] = ")"
                                  /\ AllIn(s, a2, c - 1, WordChars)
                                  /\ s[c + 1] \in QuantChars

\* /\([^)]*\)[\+\*]\s*[\(\)\|\+\*]{5,}/
RepetitionThenAlternation(s) ==
  \E i \in 1..Len(s) :
    /\ s[i] = "("
    /\ \E c \in (i + 1)..(Len(s) - 1) :
         /\ s[c] = ")"
         /\ NoClose(s, i + 1, c - 1)
         /\ s[c + 1] \in QuantChars
         /\ \E a \in (c + 2)..(Len(s) - 4) :
              /\ AllIn(s, c + 2, a - 1, SpaceChars)
              /\ AllIn(s, a, a + 4, {"(", ")", "|", "+", "*"})

\* the end of a match of /\([^)]*[\+\*]\?\)[\+\*]/ that starts at i, 0 if none
LazyNestedEnd(s, i) ==
  IF /\ s[i] = "("
     /\ \E j \in (i + 1)..(Len(s) - 3) :
          /\ NoClose(s, i + 1, j + 1)
          /\ s[j] \in QuantChars /\ s[j + 1] = "?" /\ s[j + 2] = ")"
          /\ s[j + 3] \in QuantChars
    THEN (CHOOSE j \in (i + 1)..(Len(s) - 3) :
            /\ NoClose(s, i + 1, j + 1)
            /\ s[j] \in QuantChars /\ s[j + 1] = "?" /\ s[j + 2] = ")"
            /\ s[j + 3] \in QuantChars) + 3
    ELSE 0

RECURSIVE LazyNestedCount(_, _)
\* patternStr.match(/\([^)]*[\+\*]\?\)[\+\*]/g): the number of matches from i on
LazyNestedCount(s, i) ==
  IF i > Len(s) THEN 0
  ELSE IF LazyNestedEnd(s, i) # 0 THEN 1 + LazyNestedCount(s, LazyNestedEnd(s, i) + 1)
  ELSE LazyNestedCount(s, i + 1)

\* /\([^)]*\|\s*[^)]+\)[\+\*]{2,}/
AlternationRepeatedTwice(s) ==
  \E i \in 1..Len(s) :
    /\ s[i] = "("
    /\ \E c \in (i + 1)..(Len(s) - 2) :
         /\ s[c] = ")"
         /\ NoClose(s, i + 1, c - 1)
         /\ \E b \in (i + 1)..(c - 2) : s[b] = "|"
         /\ s[c + 1] \in QuantChars
         /\ s[c + 2] \in QuantChars

\* isSafeRegexBasic(pattern)
isSafeRegexBasic(s) ==
  IF Len(s) = 0 THEN TRUE
  ELSE IF \/ NestedQuantifierAt(s, "+")
          \/ NestedQuantifierAt(s, "*")
          \/ NestedQuantifierAt(s, "?")
          \/ QuantifierOn(s, QuantChars)
          \/ QuantifierOn(s, {"?"})
          \/ AlternationWithRepetition(s)
          \/ RepetitionThenAlternation(s)
    THEN FALSE
  ELSE IF LazyNestedCount(s, 1) > 2 THEN FALSE
  ELSE IF AlternationRepeatedTwice(s) THEN FALSE
  ELSE TRUE

\* The optional safe-regex package: a pattern is unsafe when its star height
\* exceeds 1, which for the patterns of the model (groups are not nested) is
\* a quantified group that holds a quantifier.
StarHeightAboveOne(s) ==
  \E i \in 1..Len(s) :
    /\ s[i] = "("
    /\ \E c \in (i + 1)..(Len(s) - 1) :
         /\ s[c] = ")"
         /\ NoClose(s, i + 1, c - 1)
         /\ s[c + 1] \in QuantChars
         /\ \E j \in (i + 1)..(c - 1) : s[j] \in QuantChars

\* new RegExp(pattern) throws a SyntaxError (nothing to repeat): a + or *
\* at the start, or right after a quantifier, an opening parenthesis or a bar
NothingToRepeat(s) ==
  \E i \in 1..Len(s) :
    /\ s[i] \in QuantChars
    /\ i = 1 \/ s[i - 1] \in {"+", "*", "?", "(", "|"}

\* isSafeRegex(pattern): the package's verdict when the package is there and
\* the pattern compiles, the basic validation otherwise
isSafeRegex(lib, s) ==
  IF lib /\ ~NothingToRepeat(s) THEN ~StarHeightAboveOne(s) ELSE isSafeRegexBasic(s)

DefaultMaskChar == "*"                 \* options?.maskChar ?? '*'
DefaultPreserveLength == TRUE          \* options?.preserveLength ?? true

\* MaskingEngine.addDefaultRules
DefaultRules ==
  <<[pattern |-> <<"c", "r", "e", "d", "i", "t", "_", "c", "a", "r", "d", "|", "c", "a", "r", "d", "_", "n", "u", "m", "b", "e", "r", "|", "p", "a", "y", "m", "e", "n", "t", "_", "n", "u", "m", "b", "e", "r">>,
      strategy |-> "credit_card", preserveLength |-> FALSE, maskChar |-> DefaultMaskChar, global |-> FALSE, lastIndex |-> 0],
     [pattern |-> <<"s", "s", "n", "|", "s", "o", "c", "i", "a", "l", "_", "s", "e", "c", "u", "r", "i", "t", "y", "|", "s", "e", "c", "u", "r", "i", "t", "y", "_", "n", "u", "m", "b", "e", "r">>,
      strategy |-> "ssn", preserveLength |-> TRUE, maskChar |-> DefaultMaskChar, global |-> FALSE, lastIndex |-> 0],
     [pattern |-> <<"e", "m", "a", "i", "l">>,
      strategy |-> "email", preserveLength |-> TRUE, maskChar |-> DefaultMaskChar, global |-> FALSE, lastIndex |-> 0],
     [pattern |-> <<"p", "h", "o", "n", "e", "|", "p", "h", "o", "n", "e", "_", "n", "u", "m", "b", "e", "r", "|", "m", "o", "b", "i", "l", "e", "_", "n", "u", "m", "b", "e", "r">>,
      strategy |-> "phone", preserveLength |-> TRUE, maskChar |-> DefaultMaskChar, global |-> FALSE, lastIndex |-> 0],
     [pattern |-> <<"p", "a", "s", "s", "w", "o", "r", "d", "|", "p", "a", "s", "s", "|", "p", "w", "d", "|", "s", "e", "c", "r", "e", "t">>,
      strategy |-> "password", preserveLength |-> TRUE, maskChar |-> DefaultMaskChar, global |-> FALSE, lastIndex |-> 0],
     [pattern |-> <<"t", "o", "k", "e", "n", "|", "a", "p", "i", "_", "k", "e", "y", "|", "a", "u", "t", "h", "_", "t", "o", "k", "e", "n", "|", "j", "w", "t", "|", "b", "e", "a", "r", "e", "r">>,
      strategy |-> "token", preserveLength |-> TRUE, maskChar |-> DefaultMaskChar, global |-> FALSE, lastIndex |-> 0]>>

PatternSources ==
  {<<"p", "w", "d">>,
   <<"p", "a", "s", "s", "w", "o", "r", "d", "|", "p", "a", "s", "s", "w", "d">>,
   <<"(", "a", "+", ")", "+", "$">>,
   <<"(", "a", "*", ")", "*">>,
   <<"(", "a", "+", "?", ")", "+">>,
   <<"a", "+", "+">>}
\* the rules callers pass to addRule; preserveLength "unset" is an omitted
\* option; flags "string" is a pattern given as a string, "i" and "gi" are the
\* flags of a pattern given as a RegExp
CandidateRules ==
  {[pattern |-> p, strategy |-> "password", preserveLength |-> pl, flags |-> "string"] :
     p \in PatternSources, pl \in {"unset", "false"}}

\* no process call is in progress
NoScan == [active |-> FALSE, meta |-> Num, next |-> 1, seen |-> <<>>, out |-> <<>>]

NoProcess ==
  [called |-> FALSE, in |-> Num, out |-> Num, threw |-> FALSE, before |-> <<>>,
   repeated |-> FALSE, prevOut |-> Num]

NoAddRule == [called |-> FALSE, pattern |-> <<>>, before |-> <<>>, after |-> <<>>,
              threw |-> FALSE]

\* MaskingEngine.addRule(rule) throws: the pattern is rejected as unsafe, or
\* new RegExp rejects it
addRuleThrows(lib, rule) ==
  ~isSafeRegex(lib, rule.pattern) \/ NothingToRepeat(rule.pattern)

\* the rule addRule pushes: preserveLength and maskChar defaulted
addRuleEntry(rule) ==
  [pattern |-> rule.pattern,
   strategy |-> rule.strategy,
   preserveLength |-> IF rule.preserveLength = "unset"
                        THEN DefaultPreserveLength
                        ELSE rule.preserveLength = "true",
   maskChar |-> DefaultMaskChar,
   global |-> rule.flags = "gi",
   lastIndex |-> 0]

\* addRule with this.rules.unshift(rule)
unshiftRule(rs, r) == <<r>> \o rs

\* this.rules.push(rule), the last statement of addRule: the rule is compiled
\* and defaulted (addRuleEntry) before it is pushed
pushRule(rs, r) == Append(rs, r)

\* MaskingEngine.addRule(rule)
AddRule(rule) ==
  /\ Len(accepted) < MaxRules + (IF enableDefaultRules THEN Len(DefaultRules) ELSE 0)
  /\ IF addRuleThrows(safeRegexLib, rule)
       THEN /\ mCall' = [called |-> TRUE, pattern |-> rule.pattern, before |-> rules,
                         after |-> rules, threw |-> TRUE]
            /\ UNCHANGED <<rules, accepted>>
       ELSE LET r == addRuleEntry(rule)
            IN /\ rules' = pushRule(rules, r)
               /\ accepted' = Append(accepted, r)
               /\ mCall' = [called |-> TRUE, pattern |-> rule.pattern, before |-> rules,
                            after |-> pushRule(rules, r), threw |-> FALSE]
  /\ pCall' = NoProcess
  /\ UNCHANGED scan
  /\ UNCHANGED <<initialized, safeRegexLib, enableDefaultRules>>

\* MaskingEngine.process(meta), as far as the engine's own state goes
MaskProcess ==
  /\ ~initialized
  /\ initialized' = TRUE
  /\ UNCHANGED <<rules, safeRegexLib, enableDefaultRules, accepted, mCall, pCall, scan>>

\* MaskingEngine.process(meta): the tests leave their lastIndex in the rules
Process(meta) ==
  LET call(masked) ==
        [called |-> TRUE, in |-> meta,
         out |-> IF ~masked.threw /\ masked.out.kind \in {"obj", "inst"}
                   THEN masked.out ELSE meta,
         threw |-> masked.threw, before |-> rules,
         repeated |-> pCall.called /\ pCall.in = meta, prevOut |-> pCall.out]
      after(masked) == masked.rs
  IN /\ initialized' = TRUE
     /\ pCall' = call(applyMaskingRules(rules, meta))
     /\ rules' = after(applyMaskingRules(rules, meta))
     /\ UNCHANGED <<safeRegexLib, enableDefaultRules, accepted, mCall, scan>>

\* MaskingEngine.process(meta) entered: applyMaskingRules starts its reduce
\* over the keys of the record
ProcessStart(meta) ==
  /\ ~scan.active
  /\ initialized' = TRUE
  /\ scan' = [active |-> TRUE, meta |-> meta, next |-> 1, seen |-> <<>>, out |-> <<>>]
  /\ UNCHANGED <<rules, safeRegexLib, enableDefaultRules, accepted, mCall, pCall>>

\* one step of the reduce of applyMaskingRules over a record of strings: the
\* key's rule is looked up in this.rules as the list is now, and its strategy
\* applied; a strategy that throws ends the call in the catch of process
ProcessField ==
  LET key == scan.meta.kids[scan.next].k
      value == scan.meta.kids[scan.next].v
      looked(f) ==
        IF f.rule # 0 /\ applyStrategyThrows(value.s, f.rs[f.rule])
          THEN /\ scan' = [scan EXCEPT !.active = FALSE, !.seen = Append(@, rules)]
               /\ pCall' = [called |-> TRUE, in |-> scan.meta, out |-> scan.meta,
                            threw |-> TRUE, before |-> rules, repeated |-> FALSE,
                            prevOut |-> pCall.out]
               /\ rules' = f.rs
          ELSE /\ scan' = [scan EXCEPT
                             !.next = @ + 1, !.seen = Append(@, rules),
                             !.out = Append(@, Prop(key,
                                       IF f.rule = 0 THEN value
                                       ELSE Str(applyStrategy(value.s, f.rs[f.rule]))))]
               /\ rules' = f.rs
               /\ UNCHANGED pCall
  IN /\ scan.active /\ scan.next <= Len(scan.meta.kids)
     /\ looked(findMatchingRule(rules, key))
     /\ UNCHANGED <<initialized, safeRegexLib, enableDefaultRules, accepted, mCall>>

\* the reduce is over: process returns the masked record
ProcessReturn ==
  /\ scan.active /\ scan.next > Len(scan.meta.kids)
  /\ scan' = [scan EXCEPT !.active = FALSE]
  /\ pCall' = [called |-> TRUE, in |-> scan.meta, out |-> Obj(scan.out), threw |-> FALSE,
               before |-> rules, repeated |-> FALSE, prevOut |-> pCall.out]
  /\ UNCHANGED <<rules, initialized, safeRegexLib, enableDefaultRules, accepted, mCall>>

\* MaskingEngine.shutdown()
Shutdown ==
  /\ rules # <<>> \/ initialized
  /\ rules' = <<>>
  /\ initialized' = FALSE
  /\ pCall' = NoProcess
  /\ UNCHANGED scan
  /\ UNCHANGED <<safeRegexLib, enableDefaultRules, accepted, mCall>>

\* new MaskingEngine({ enableDefaultRules })
MaskInit ==
  /\ enableDefaultRules \in BOOLEAN
  /\ rules = IF enableDefaultRules THEN DefaultRules ELSE <<>>
  /\ accepted = rules
  /\ initialized = FALSE
  /\ safeRegexLib \in BOOLEAN
  /\ mCall = NoAddRule
  /\ pCall = NoProcess /\ scan = NoScan

MaskIdle ==
  /\ enableDefaultRules = FALSE
  /\ rules = <<>>
  /\ accepted = <<>>
  /\ initialized = FALSE
  /\ safeRegexLib = FALSE
  /\ mCall = NoAddRule
  /\ pCall = NoProcess /\ scan = NoScan

\* --------------------------------------------------------------------------
\* Sanitizer: process calls
\* --------------------------------------------------------------------------
SanAlphabet == {"ESC", "CSI", "[", ";", "3", "m", "x"}
RECURSIVE StringsUpTo(_)
StringsUpTo(n) ==
  IF n = 0 THEN {<<>>}
  ELSE StringsUpTo(n - 1) \cup
       {Append(s, c) : s \in {t \in StringsUpTo(n - 1) : Len(t) = n - 1}, c \in SanAlphabet}
SanStrings == StringsUpTo(MaxStrLen)
SanKeys == {<<"k">>, <<"p", "w", "d">>, <<"ESC", "[", "3", "m", "k">>}
PlainLeaves == {Str(s) : s \in SanStrings} \cup {Num}
OpaqueLeaves == {Inst(1, <<>>), Inst(2, <<Prop(<<"p", "w", "d">>, Str(<<"x">>))>>)}
TreesOver(leaves) ==
  {Obj(<<Prop(k, l)>>) : k \in SanKeys, l \in leaves}
    \cup {Obj(<<Prop(<<"k">>, Arr(<<Item(l)>>))>>) : l \in leaves}
    \cup {Obj(<<Prop(<<"k">>, Obj(<<Prop(k, l)>>))>>) : k \in SanKeys, l \in leaves}
SanTrees == TreesOver(PlainLeaves \cup OpaqueLeaves)
\* the rules of the masking engine the sanitizer is given
SanRules ==
  <<[pattern |-> <<"p", "w", "d">>, strategy |-> "password",
     preserveLength |-> TRUE, maskChar |-> DefaultMaskChar, global |-> FALSE, lastIndex |-> 0]>>

RECURSIVE IsPlain(_)
\* a tree made only of primitives, arrays and plain objects
IsPlain(v) ==
  /\ v.kind # "inst"
  /\ \A i \in 1..Len(v.kids) : IsPlain(v.kids[i].v)

\* SanitizationEngine.process(meta) called
SanProcess ==
  /\ ~sCall.done
  /\ sCall' = [done |-> TRUE, in |-> sCall.in,
               out |-> sanitizerProcess(sMasking, rules, sCall.in)]
  /\ initialized' = (initialized \/ sMasking)
  /\ UNCHANGED <<sMasking, rules, safeRegexLib, enableDefaultRules, accepted, mCall, pCall,
                 scan>>

\* SanitizationEngine.process(meta) on an engine that holds a masking engine:
\* sanitizeRecursively(meta), then maskingEngine.process on its result
SanitizerProcess(meta) ==
  /\ sMasking
  /\ sCall' = [done |-> TRUE, in |-> meta, out |-> sanitizerProcess(sMasking, rules, meta)]
  /\ Process(sanitizeRecursively(meta))
  /\ UNCHANGED sMasking

SanInit ==
  /\ sMasking \in BOOLEAN
  /\ \E t \in SanTrees : sCall = [done |-> FALSE, in |-> t, out |-> t]

SanIdle ==
  /\ sMasking = FALSE
  /\ sCall = [done |-> FALSE, in |-> Num, out |-> Num]

\* --------------------------------------------------------------------------
\* Logger: src/src/Logger.ts
\* --------------------------------------------------------------------------
LOG_LEVEL_WEIGHTS ==
  [fatal |-> 60, error |-> 50, warn |-> 40, info |-> 30, debug |-> 20, trace |-> 10,
   silent |-> 0]

isLevelEnabledByWeight(logLevel, configuredLevel) ==
  LOG_LEVEL_WEIGHTS[logLevel] >= LOG_LEVEL_WEIGHTS[configuredLevel]

\* isLevelEnabled(logLevel, configuredLevel)
isLevelEnabled(logLevel, configuredLevel) ==
  IF configuredLevel = "silent" THEN FALSE
  ELSE IF logLevel = "silent" THEN FALSE
  ELSE LOG_LEVEL_WEIGHTS[logLevel] >= LOG_LEVEL_WEIGHTS[configuredLevel]

\* the field names of the model, in the order a record lists them, and their
\* characters
KeyOrder ==
  <<"a", "b", "correlationId", "secret", "source", "transactionId", "retention", "level">>
LogKeys == Elems(KeyOrder)
Chars(k) ==
  IF k = "correlationId"
    THEN <<"c", "o", "r", "r", "e", "l", "a", "t", "i", "o", "n", "I", "d">>
  ELSE IF k = "secret" THEN <<"s", "e", "c", "r", "e", "t">>
  ELSE IF k = "level" THEN <<"l", "e", "v", "e", "l">>
  ELSE <<k>>

IsIn(S) == [k \in LogKeys |-> k \in S]
\* Object.keys(obj) / map.keys() as a sequence
KeysOf(obj) == SelectSeq(KeyOrder, LAMBDA k : k \in DOMAIN obj)
\* the fields of obj whose key passes the filter keep
Restrict(obj, keep) == [k \in {x \in DOMAIN obj : keep[x]} |-> obj[k]]
\* { ...f, ...g }
Spread(f, g) == [k \in DOMAIN f \cup DOMAIN g |-> IF k \in DOMAIN g THEN g[k] ELSE f[k]]
\* obj as a value tree, and the object a tree with obj's keys stands for
ToTree(obj) == Obj([i \in 1..Len(KeysOf(obj)) |-> Prop(Chars(KeysOf(obj)[i]), obj[KeysOf(obj)[i]])])
FromTree(obj, tree) ==
  [k \in DOMAIN obj |-> tree.kids[CHOOSE i \in 1..Len(KeysOf(obj)) : KeysOf(obj)[i] = k].v]

\* what AsyncContext.storage.getStore() returns to the caller: undefined
\* outside a scope, the scope's Map inside one
StoreOf(map) == [active |-> TRUE, map |-> map]
Undefined == [active |-> FALSE, map |-> EmptyObject]

RECURSIVE Serializable(_)
\* JSON.stringify(value) returns; it throws a TypeError on a BigInt
Serializable(v) ==
  /\ v.kind # "bigint"
  /\ \A i \in 1..Len(v.kids) : Serializable(v.kids[i].v)

\* Logger.getAsyncContext().hasContext
hasContextOf(store) == useAsyncContext /\ store.active /\ DOMAIN store.map # {}

\* Logger.hasNonEmptyObject(obj)
hasNonEmptyObject(obj) == DOMAIN obj # {}

\* Logger.rebuildContextFromSanitized
rebuildContextFromSanitized(sanitized, hasContext, store) ==
  IF ~hasContext \/ ~store.active \/ ~useAsyncContext THEN Undefined
  ELSE StoreOf(Restrict(sanitized,
         IsIn({k \in LogKeys : k \in DOMAIN store.map /\ k \notin DOMAIN bindings})))

\* Logger.rebuildBindingsFromSanitized
rebuildBindingsFromSanitized(sanitized, hasContext, store) ==
  Restrict(sanitized,
    IsIn({k \in LogKeys : k \in DOMAIN bindings
                          /\ ~(hasContext /\ store.active /\ k \in DOMAIN store.map)}))

\* Logger.processCompliancePipeline
processCompliancePipeline(metadata, hasContext, store, lvl) ==
  IF ~sanitizationEngine
    THEN [processedMetadata |-> metadata,
          processedContext |-> IF hasContext THEN store ELSE Undefined,
          processedBindings |-> bindings]
  ELSE LET contextData == IF hasContext /\ store.active THEN store.map ELSE EmptyObject
           filteredContext == IF fieldFilter /\ hasContext
                                THEN filterContext(matrix, contextData, lvl)
                                ELSE contextData
           process(combinedData) ==
             FromTree(combinedData, sanitizerProcess(sMasking, rules, ToTree(combinedData)))
           rebuilt(sanitized) ==
             [processedMetadata |-> sanitized,
              processedContext |-> rebuildContextFromSanitized(sanitized, hasContext, store),
              processedBindings |-> rebuildBindingsFromSanitized(sanitized, hasContext, store)]
       IN rebuilt(process(Spread(Spread(bindings, filteredContext), metadata)))

\* the fields appendFieldsToJson writes for obj, as <<key, value>> pairs
FieldsOf(obj) == [i \in 1..Len(KeysOf(obj)) |-> <<KeysOf(obj)[i], obj[KeysOf(obj)[i]]>>]

\* Logger.appendFieldsToJson: the fields it appends, context first, then the
\* bindings whose key the store does not have, then the metadata whose key
\* neither the store nor data.bindings has
appendFieldsToJson(data, hasContext, store) ==
  LET inStore(k) == hasContext /\ store.active /\ k \in DOMAIN store.map
      contextToUse == IF data.context.active THEN data.context.map ELSE store.map
      contextFields == IF hasContext /\ (data.context.active \/ store.active)
                         THEN FieldsOf(contextToUse) ELSE <<>>
      bindingFields == FieldsOf(Restrict(data.bindings,
                                  IsIn({k \in LogKeys : ~inStore(k)})))
      metadataFields == FieldsOf(Restrict(data.metadata,
                                   IsIn({k \in LogKeys : ~inStore(k)
                                                         /\ k \notin DOMAIN data.bindings})))
  IN contextFields \o bindingFields \o metadataFields

\* Logger.writeLogEntry with shouldProcessCompliance = this.sanitizationEngine
writeLogEntrySanitizerOnly(lvl, metadata, hasContext, store) ==
  IF ~hasContext /\ ~hasNonEmptyObject(bindings) /\ ~hasNonEmptyObject(metadata)
    THEN <<>>
  ELSE IF ~sanitizationEngine
    THEN appendFieldsToJson([metadata |-> metadata, context |-> Undefined,
                             bindings |-> bindings], hasContext, store)
  ELSE LET append(processed) ==
             appendFieldsToJson([metadata |-> processed.processedMetadata,
                                 context |-> processed.processedContext,
                                 bindings |-> processed.processedBindings],
                                hasContext, store)
       IN append(processCompliancePipeline(metadata, hasContext, store, lvl))

\* the outcome of Logger.writeLogEntry: the fields of the record after the
\* four core fields, and whether a JSON.stringify of a field value threw
writeLogEntry(lvl, metadata, hasContext, store) ==
  IF ~hasContext /\ ~hasNonEmptyObject(bindings) /\ ~hasNonEmptyObject(metadata)
    THEN <<>>
  ELSE IF ~(useAsyncContext /\ sanitizationEngine)
    THEN appendFieldsToJson([metadata |-> metadata, context |-> Undefined,
                             bindings |-> bindings], hasContext, store)
  ELSE LET append(processed) ==
             appendFieldsToJson([metadata |-> processed.processedMetadata,
                                 context |-> processed.processedContext,
                                 bindings |-> processed.processedBindings],
                                hasContext, store)
       IN append(processCompliancePipeline(metadata, hasContext, store, lvl))

Transports == {"T1", "T2"}

\* Logger.writeToTransport(json): this.transport.log(json) inside try/catch;
\* the catch reports with console.error
writeToTransportUncaught(transportFails) ==
  [threw |-> transportFails, reported |-> FALSE]

writeToTransport(transportFails) ==
  [threw |-> FALSE, reported |-> transportFails]

\* Logger.buildBaseJson(timestamp, level, message), and the same four fields
\* of writeFastPathLog: the fields every record starts with
buildBaseJson(level, message) ==
  <<<<"timestamp", Num>>, <<"level", Str(<<level>>)>>, <<"message", message>>,
    <<"service", Str(<<"svc">>)>>>>

\* the record of a log call, field by field as writeLogEntry builds the
\* string: the base fields, then what appendFieldsToJson appends; the message
\* is '' without arguments and 'm' otherwise
recordOf(call) ==
  buildBaseJson(call.level, IF call.noArgs THEN Str(<<>>) ELSE Str(<<"m">>)) \o call.fields

NoLog == [called |-> FALSE, level |-> "info", configured |-> "info", noArgs |-> FALSE,
          metadata |-> EmptyObject, store |-> Undefined,
          emitted |-> FALSE, threw |-> FALSE, fields |-> <<>>,
          to |-> "none", failed |-> FALSE, reported |-> FALSE, afterFailure |-> FALSE]

\* logger.<lvl>(...args) called where getStore() returns store: without
\* arguments, or with the metadata object (empty when the first argument is
\* the message); transportFails: transport.log throws
Log(lvl, noArgs, metadata, store, transportFails) ==
  LET call == [called |-> TRUE, level |-> lvl, configured |-> loggerLevel,
               noArgs |-> noArgs, metadata |-> metadata, store |-> store,
               emitted |-> FALSE, threw |-> FALSE, fields |-> <<>>,
               to |-> "none", failed |-> FALSE, reported |-> FALSE,
               afterFailure |-> failedBefore]
      written(w) == [call EXCEPT !.to = transport, !.failed = transportFails,
                                 !.threw = w.threw, !.reported = w.reported]
      hasContext == IF noArgs THEN FALSE ELSE hasContextOf(store)
      outcome(fields) ==
        IF ~isLevelEnabled(lvl, loggerLevel) THEN call
        ELSE IF \E i \in 1..Len(fields) : ~Serializable(fields[i][2])
          THEN [call EXCEPT !.threw = TRUE]
        ELSE IF transportFails THEN written(writeToTransport(transportFails))
        ELSE [written(writeToTransport(transportFails))
                EXCEPT !.emitted = TRUE, !.fields = fields]
  IN /\ noArgs => metadata = EmptyObject
     /\ lCall' = outcome(writeLogEntry(lvl, metadata, hasContext,
                                       IF noArgs THEN Undefined ELSE store))
     /\ failedBefore' = (failedBefore \/ lCall'.failed)
     /\ UNCHANGED <<logConfig, closeStarted, dCall, rCall, parentTransport>>

\* Logger.setLevel(level)
SetLevel(lvl) ==
  /\ loggerLevel # lvl
  /\ loggerLevel' = lvl
  /\ UNCHANGED <<bindings, useAsyncContext, sanitizationEngine, fieldFilter, transport,
                 maskingEngine, ownRules, closeStarted, failedBefore, lCall, dCall, rCall,
                 parentTransport>>

\* the fields of the Logger instance the calls are made on
Fields ==
  [bindings |-> bindings, level |-> loggerLevel, transport |-> transport,
   useAsyncContext |-> useAsyncContext, sanitizationEngine |-> sanitizationEngine,
   maskingEngine |-> maskingEngine, fieldFilter |-> fieldFilter]

NoDerive ==
  [op |-> "none", given |-> EmptyObject, same |-> FALSE,
   before |-> [bindings |-> EmptyObject, level |-> "info", transport |-> "T1",
               useAsyncContext |-> TRUE, sanitizationEngine |-> FALSE,
               maskingEngine |-> "none", fieldFilter |-> FALSE],
   after |-> [bindings |-> EmptyObject, level |-> "info", transport |-> "T1",
              useAsyncContext |-> TRUE, sanitizationEngine |-> FALSE,
              maskingEngine |-> "none", fieldFilter |-> FALSE],
   result |-> [bindings |-> EmptyObject, level |-> "info", transport |-> "T1",
               useAsyncContext |-> TRUE, sanitizationEngine |-> FALSE,
               maskingEngine |-> "none", fieldFilter |-> FALSE]]

\* Logger.withoutContext(): this.useAsyncContext = false; return this
WithoutContext ==
  /\ useAsyncContext
  /\ useAsyncContext' = FALSE
  /\ dCall' = [op |-> "withoutContext", given |-> EmptyObject, same |-> TRUE,
               before |-> Fields,
               after |-> [Fields EXCEPT !.useAsyncContext = FALSE],
               result |-> [Fields EXCEPT !.useAsyncContext = FALSE]]
  /\ UNCHANGED <<bindings, loggerLevel, sanitizationEngine, fieldFilter, transport,
                 maskingEngine, ownRules, closeStarted, failedBefore, lCall, rCall,
                 parentTransport>>

\* Logger.child(bindings): a new Logger built from this one's fields, no field
\* of this one assigned; from here on the calls are made on the child
Child(childBindings) ==
  /\ bindings' = Spread(bindings, childBindings)
  /\ bindings' # bindings
  /\ dCall' = [op |-> "child", given |-> childBindings, same |-> FALSE,
               before |-> Fields, after |-> Fields,
               result |-> [Fields EXCEPT !.bindings = Spread(bindings, childBindings)]]
  /\ UNCHANGED <<loggerLevel, useAsyncContext, sanitizationEngine, fieldFilter, transport,
                 maskingEngine, ownRules, closeStarted, failedBefore, lCall, rCall>>
  /\ parentTransport' = transport

\* Logger.withSource(source): this.child({ source })
WithSource(source) == Child([source |-> source])

\* Logger.withTransactionId(transactionId): this.child({ transactionId })
WithTransactionId(transactionId) == Child([transactionId |-> transactionId])

\* Logger.withRetention(rules): this.child({ retention: rules })
WithRetention(retentionRules) == Child([retention |-> retentionRules])

\* reconfigure({ transport }) called on the logger child() was called on,
\* which the child does not see: switchTransport assigns the parent's
\* transport and calls close on the one it had, which is the child's
ParentReconfigure(newTransport, closeKind) ==
  /\ parentTransport # "none"
  /\ parentTransport' = newTransport
  /\ closeStarted' = IF closeKind # "absent"
                       THEN closeStarted \cup {parentTransport} ELSE closeStarted
  /\ UNCHANGED <<logConfig, failedBefore, lCall, dCall, rCall>>

CloseKinds == {"absent", "resolves", "rejects", "throws"}

NoReconfigure ==
  [called |-> FALSE, level |-> "unset", transport |-> "unset", addMaskingRule |-> <<>>,
   loggingMatrix |-> <<>>, closeKind |-> "absent", previous |-> "T1", threw |-> FALSE]

\* Logger.reconfigure(options), with switchTransport, addMaskingRuleSafely and
\* updateLoggingMatrix. An option that is not given is "unset" or <<>>;
\* closeKind is what the close method of the transport in use does: it is
\* absent, returns (a value or a promise that resolves), returns a promise
\* that rejects, or throws.
Reconfigure(options, closeKind) ==
  LET switches == options.transport # "unset"
      closeThrows == switches /\ closeKind = "throws"
      addsRule == ~closeThrows /\ options.addMaskingRule # <<>>
      ruleThrows == addsRule /\ addRuleThrows(safeRegexLib, options.addMaskingRule[1])
      accepts == addsRule /\ ~ruleThrows
      entry == addRuleEntry(options.addMaskingRule[1])
      updatesMatrix == ~closeThrows /\ ~ruleThrows /\ options.loggingMatrix # <<>>
  IN /\ options.addMaskingRule # <<>> => Len(rules) < MaxRules /\ Len(ownRules) < MaxRules
     /\ loggerLevel' = IF options.level # "unset" THEN options.level ELSE loggerLevel
     /\ transport' = IF switches THEN options.transport ELSE transport
     /\ closeStarted' = IF switches /\ closeKind # "absent"
                          THEN closeStarted \cup {transport} ELSE closeStarted
     /\ maskingEngine' =
          IF ~addsRule \/ maskingEngine # "none" THEN maskingEngine
          ELSE IF accepts /\ ~sanitizationEngine THEN "shared" ELSE "own"
     /\ ownRules' =
          IF ~addsRule \/ maskingEngine = "shared" THEN ownRules
          ELSE IF maskingEngine = "own"
            THEN (IF accepts THEN Append(ownRules, entry) ELSE ownRules)
          ELSE IF accepts /\ sanitizationEngine THEN <<entry>> ELSE <<>>
     /\ sanitizationEngine' =
          (sanitizationEngine \/ (accepts /\ maskingEngine = "none"))
     /\ sMasking' =
          IF accepts /\ maskingEngine = "none" /\ ~sanitizationEngine THEN TRUE ELSE sMasking
     /\ rules' =
          IF accepts /\ maskingEngine = "shared" THEN Append(rules, entry)
          ELSE IF accepts /\ maskingEngine = "none" /\ ~sanitizationEngine THEN <<entry>>
          ELSE rules
     /\ accepted' =
          IF accepts /\ maskingEngine = "shared" THEN Append(accepted, entry)
          ELSE IF accepts /\ maskingEngine = "none" /\ ~sanitizationEngine THEN <<entry>>
          ELSE accepted
     /\ fieldFilter' = (fieldFilter \/ updatesMatrix)
     /\ matrix' =
          IF ~updatesMatrix THEN matrix
          ELSE IF fieldFilter THEN filterReconfigure(matrix, options.loggingMatrix[1])
          ELSE options.loggingMatrix[1]
     /\ rCall' = [called |-> TRUE, level |-> options.level, transport |-> options.transport,
                  addMaskingRule |-> options.addMaskingRule,
                  loggingMatrix |-> options.loggingMatrix, closeKind |-> closeKind,
                  previous |-> transport, threw |-> closeThrows \/ ruleThrows]
     /\ UNCHANGED <<bindings, useAsyncContext, failedBefore, lCall, dCall, fCall, sCall,
                    initialized, safeRegexLib, enableDefaultRules, mCall, pCall, scan,
                    parentTransport, ctxVars>>

V(c) == Str(<<c>>)
BindingsArgs == {EmptyObject, [a |-> V("2")], [a |-> V("2"), b |-> V("2")]}
ChildBindingsArgs == {[a |-> V("4"), b |-> V("2")]}
MetadataArgs == {EmptyObject, [a |-> V("3")], [a |-> BigInt], [secret |-> V("3")]}
StoreArgs ==
  {Undefined, StoreOf(EmptyObject), StoreOf([a |-> V("1")]),
   StoreOf([correlationId |-> V("c"), secret |-> V("s")])}
MatrixArgs ==
  {EmptyObject, [default |-> <<"correlationId">>, error |-> <<"*">>]}
CallLevels == {"info", "error"}
ConfiguredLevels == {"info", "error"}

\* new Logger(name, transport, level, bindings, options)
LogInit ==
  /\ bindings \in BindingsArgs
  /\ loggerLevel = "info"
  /\ useAsyncContext \in BOOLEAN
  /\ sanitizationEngine \in BOOLEAN
  /\ fieldFilter \in BOOLEAN
  /\ transport = "T1"
  /\ maskingEngine = "none"
  /\ ownRules = <<>>
  /\ closeStarted = {}
  /\ failedBefore = FALSE
  /\ lCall = NoLog
  /\ dCall = NoDerive
  /\ rCall = NoReconfigure /\ parentTransport = "none"

LogIdle ==
  /\ bindings = EmptyObject
  /\ loggerLevel = "info"
  /\ useAsyncContext = TRUE
  /\ sanitizationEngine = FALSE
  /\ fieldFilter = FALSE
  /\ transport = "T1"
  /\ maskingEngine = "none"
  /\ ownRules = <<>>
  /\ closeStarted = {}
  /\ failedBefore = FALSE
  /\ lCall = NoLog
  /\ dCall = NoDerive
  /\ rCall = NoReconfigure /\ parentTransport = "none"

\* --------------------------------------------------------------------------
\* Specifications
\* --------------------------------------------------------------------------
CtxIdle ==
  /\ depth = [t \in Tasks |-> 0]
  /\ maps = [t \in Tasks |-> [d \in 1..(MaxDepth + 1) |-> EmptyMap]]
  /\ autoGenerate = TRUE
  /\ snap = [t \in Tasks |-> [d \in 1..(MaxDepth + 1) |-> EmptyMap]]
  /\ mine = [t \in Tasks |-> [d \in 0..(MaxDepth + 1) |-> EmptyMap]]
  /\ ev = [t \in Tasks |-> [type |-> "none", expect |-> EmptyMap, inner |-> EmptyMap,
                            id |-> "", auto |-> TRUE]]

InitCtx == CtxInit /\ FilterIdle /\ MaskIdle /\ SanIdle /\ LogIdle
CtxOnly == UNCHANGED <<filterVars, maskVars, sanVars, logVars>>
NextCtx ==
  \/ \E t \in Tasks : \E d \in InitialDatas(t) : Run(t, d) /\ CtxOnly
  \/ \E t \in Tasks : Exit(t) /\ CtxOnly
  \/ \E t \in Tasks : \E k \in {"k"} : \E v \in UserVals : Set(t, k, v) /\ CtxOnly
  \/ \E t \in Tasks : Clear(t) /\ CtxOnly
  \/ \E t \in Tasks : \E u \in GenIds : GetCorrelationId(t, u) /\ CtxOnly
  \/ \E b \in BOOLEAN : Configure(b) /\ CtxOnly
SpecCtx == InitCtx /\ [][NextCtx]_vars

\* the correlation id inside and outside a scope: scopes start empty, the id
\* is read, set and cleared
InitCorrelation == InitCtx
NextCorrelation ==
  \/ \E t \in Tasks : Run(t, EmptyMap) /\ CtxOnly
  \/ \E t \in Tasks : Exit(t) /\ CtxOnly
  \/ \E t \in Tasks : Set(t, "k", "outer") /\ CtxOnly
  \/ \E t \in Tasks : SetCorrelationId(t, "outer") /\ CtxOnly
  \/ \E t \in Tasks : Clear(t) /\ CtxOnly
  \/ \E t \in Tasks : \E u \in GenIds : GetCorrelationId(t, u) /\ CtxOnly
  \/ \E b \in BOOLEAN : Configure(b) /\ CtxOnly
SpecCorrelation == InitCorrelation /\ [][NextCorrelation]_vars

InitFilter == FilterInit /\ CtxIdle /\ MaskIdle /\ SanIdle /\ LogIdle
FilterOnly == UNCHANGED <<ctxVars, maskVars, sanVars, logVars>>
NextFilter ==
  \/ \E c \in FilterContexts : \E l \in FilterLevels : FilterContext(c, l) /\ FilterOnly
  \/ \E S \in SUBSET MatrixKeys : \E l \in AllowLists :
        FilterReconfigure([k \in S |-> l]) /\ FilterOnly
SpecFilter == InitFilter /\ [][NextFilter]_vars

InitMask == MaskInit /\ CtxIdle /\ FilterIdle /\ SanIdle /\ LogIdle
MaskOnly == UNCHANGED <<ctxVars, filterVars, sanVars, logVars>>
NextMask ==
  \/ \E r \in CandidateRules : AddRule(r) /\ MaskOnly
  \/ MaskProcess /\ MaskOnly
  \/ Shutdown /\ MaskOnly
SpecMask == InitMask /\ [][NextMask]_vars

Secret == <<"s", "e", "c", "r", "e", "t">>
\* the rules added before records are processed: /secret/i with the token and
\* the password strategy, /secret/gi, and 's' with a strategy without a masker
ProcessRules ==
  {[pattern |-> Secret, strategy |-> "token", preserveLength |-> "unset", flags |-> "i"],
   [pattern |-> Secret, strategy |-> "password", preserveLength |-> "unset", flags |-> "i"],
   [pattern |-> Secret, strategy |-> "password", preserveLength |-> "unset", flags |-> "gi"],
   [pattern |-> <<"s">>, strategy |-> "custom", preserveLength |-> "false",
    flags |-> "string"]}
ShortValue == Str(<<"v", "a", "l", "u", "e">>)
LongValue == Str(<<"1", "2", "3", "4", "5", "6", "7", "8", "9", "0">>)
ProcessMetas ==
  {Obj(<<Prop(Secret, v)>>) : v \in {ShortValue, LongValue}}
    \cup {Obj(<<Prop(<<"k">>, LongValue)>>),
          Obj(<<Prop(<<"s">>, LongValue), Prop(Secret, ShortValue)>>),
          Obj(<<Prop(Secret, LongValue), Prop(<<"k">>, Obj(<<Prop(Secret, LongValue)>>))>>)}

\* a masking engine without default rules: rules are added, records processed
InitProcess == MaskInit /\ ~enableDefaultRules /\ CtxIdle /\ FilterIdle /\ SanIdle /\ LogIdle
NextProcess ==
  \/ \E r \in ProcessRules : AddRule(r) /\ MaskOnly
  \/ \E meta \in ProcessMetas : Process(meta) /\ MaskOnly
SpecProcess == InitProcess /\ [][NextProcess]_vars

RECURSIVE StringsOver(_, _)
\* the strings over alphabet of length n or less
StringsOver(alphabet, n) ==
  IF n = 0 THEN {<<>>}
  ELSE StringsOver(alphabet, n - 1) \cup
       {Append(t, c) : t \in {x \in StringsOver(alphabet, n - 1) : Len(x) = n - 1},
                       c \in alphabet}
Strategies == {"credit_card", "ssn", "email", "phone", "password", "token", "custom"}
\* one rule on the field v, of any strategy, preserving the length or not
StrategyRules ==
  {<<[pattern |-> <<"v">>, strategy |-> st, preserveLength |-> pl,
      maskChar |-> DefaultMaskChar, global |-> FALSE, lastIndex |-> 0]>> :
     st \in Strategies, pl \in BOOLEAN}
StrategyValues ==
  StringsOver({"1", "@"}, MaxStrLen)
    \cup {<<"1", "2", "3", "4", "5">>, <<"1", "2", "-", "3", "4", "5", "6", "7">>,
          <<"a", "b", "@", "c">>,
          <<"1", "2", "3", "4", "5", "6", "7", "8", "9">>,
          <<"1", "2", "3", "4", "5", "6", "7", "8", "9", "0">>}

\* a masking engine with one rule masks the field v of a record
InitStrategy ==
  /\ CtxIdle /\ FilterIdle /\ SanIdle /\ LogIdle
  /\ rules \in StrategyRules /\ accepted = rules /\ enableDefaultRules = FALSE
  /\ initialized = FALSE /\ safeRegexLib = FALSE /\ mCall = NoAddRule /\ pCall = NoProcess /\ scan = NoScan
NextStrategy ==
  \E value \in StrategyValues : Process(Obj(<<Prop(<<"v">>, Str(value))>>)) /\ MaskOnly
SpecStrategy == InitStrategy /\ [][NextStrategy]_vars

InitSan ==
  /\ SanInit /\ CtxIdle /\ FilterIdle /\ LogIdle
  /\ rules = SanRules /\ accepted = SanRules /\ initialized = FALSE
  /\ safeRegexLib = FALSE /\ enableDefaultRules = FALSE /\ mCall = NoAddRule
  /\ pCall = NoProcess /\ scan = NoScan
NextSan == SanProcess /\ UNCHANGED <<ctxVars, filterVars, logVars>>
SpecSan == InitSan /\ [][NextSan]_vars

\* a logger, its field filter's matrix, and the sanitizer of the logger with
\* or without a masking engine
InitLog ==
  /\ LogInit /\ CtxIdle
  /\ matrix \in (IF fieldFilter THEN MatrixArgs ELSE {EmptyObject}) /\ fCall = NoCall
  /\ sMasking \in (IF sanitizationEngine THEN BOOLEAN ELSE {FALSE})
  /\ sCall = [done |-> FALSE, in |-> Num, out |-> Num]
  /\ rules = SanRules /\ accepted = SanRules /\ initialized = FALSE
  /\ safeRegexLib = FALSE /\ enableDefaultRules = FALSE /\ mCall = NoAddRule
  /\ pCall = NoProcess /\ scan = NoScan
LogOnly == UNCHANGED <<ctxVars, filterVars, maskVars, sanVars>>
NextLog ==
  \/ \E lvl \in CallLevels, noArgs \in BOOLEAN, m \in MetadataArgs, st \in StoreArgs :
        Log(lvl, noArgs, m, st, FALSE) /\ LogOnly
  \/ \E lvl \in ConfiguredLevels : SetLevel(lvl) /\ LogOnly
  \/ WithoutContext /\ LogOnly
  \/ \E b \in ChildBindingsArgs : Child(b) /\ LogOnly
SpecLog == InitLog /\ [][NextLog]_vars

Levels == DOMAIN LOG_LEVEL_WEIGHTS
\* the levels that have a logging method: fatal, error, warn, info, debug, trace
MethodLevels == Levels \ {"silent"}
PlainMetadataArgs == {EmptyObject, [a |-> V("3")], [a |-> BigInt]}

\* a logger without engines whose transport may fail and may be replaced
InitTransport == LogIdle /\ CtxIdle /\ FilterIdle /\ MaskIdle /\ SanIdle
NextTransport ==
  \/ \E lvl \in CallLevels, m \in PlainMetadataArgs, fails \in BOOLEAN :
        Log(lvl, FALSE, m, Undefined, fails) /\ LogOnly
  \/ \E lvl \in ConfiguredLevels : SetLevel(lvl) /\ LogOnly
  \/ \E lvl \in ConfiguredLevels \cup {"unset"}, t \in Transports \cup {"unset"},
        ck \in CloseKinds :
        Reconfigure([level |-> lvl, transport |-> t, addMaskingRule |-> <<>>,
                     loggingMatrix |-> <<>>], ck)
SpecTransport == InitTransport /\ [][NextTransport]_vars

\* the rules given to reconfigure: one on the field secret, one that addRule
\* rejects
ReconfigureRules ==
  {[pattern |-> p, strategy |-> "password", preserveLength |-> "unset", flags |-> "string"] :
     p \in {Secret, <<"(", "a", "+", ")", "+", "$">>}}

\* a logger built by the constructor or by createLogger with no engine, with a
\* sanitization engine (holding a masking engine or not), with a masking
\* engine, or with both. createLogger passes no maskingEngine to the
\* constructor: its loggers have maskingEngine = "none".
InitReconfigure ==
  /\ CtxIdle /\ FilterIdle
  /\ bindings = EmptyObject /\ loggerLevel = "info" /\ useAsyncContext \in BOOLEAN
  /\ fieldFilter = FALSE /\ matrix = EmptyObject /\ transport = "T1"
  /\ sanitizationEngine \in BOOLEAN
  /\ sMasking \in (IF sanitizationEngine THEN BOOLEAN ELSE {FALSE})
  /\ maskingEngine \in (IF sMasking THEN {"none", "shared", "own"} ELSE {"none", "own"})
  /\ rules = (IF sMasking THEN SanRules ELSE <<>>) /\ accepted = rules
  /\ ownRules = (IF maskingEngine = "own" THEN SanRules ELSE <<>>)
  /\ initialized = FALSE /\ safeRegexLib = FALSE /\ enableDefaultRules = FALSE
  /\ mCall = NoAddRule /\ pCall = NoProcess /\ scan = NoScan
  /\ sCall = [done |-> FALSE, in |-> Num, out |-> Num]
  /\ closeStarted = {} /\ failedBefore = FALSE
  /\ lCall = NoLog /\ dCall = NoDerive /\ rCall = NoReconfigure /\ parentTransport = "none"
NextReconfigure ==
  \/ \E r \in ReconfigureRules :
        Reconfigure([level |-> "unset", transport |-> "unset", addMaskingRule |-> <<r>>,
                     loggingMatrix |-> <<>>], "absent")
  \/ \E m \in {[secret |-> V("3")], [a |-> V("3")]},
        st \in {Undefined, StoreOf([correlationId |-> V("c"), secret |-> V("s")])} :
        Log("info", FALSE, m, st, FALSE) /\ LogOnly
SpecReconfigure == InitReconfigure /\ [][NextReconfigure]_vars

\* a logger from which other loggers are derived
InitDerive ==
  /\ CtxIdle /\ FilterIdle /\ MaskIdle /\ SanIdle
  /\ LogInit /\ ~sanitizationEngine /\ ~fieldFilter
NextDerive ==
  \/ \E b \in ChildBindingsArgs : Child(b) /\ LogOnly
  \/ WithSource(V("r")) /\ LogOnly
  \/ WithTransactionId(V("t")) /\ LogOnly
  \/ WithRetention(Obj(<<Prop(<<"p">>, V("y"))>>)) /\ LogOnly
  \/ WithoutContext /\ LogOnly
  \/ \E lvl \in ConfiguredLevels : SetLevel(lvl) /\ LogOnly
  \/ \E m \in {EmptyObject, [a |-> V("3")]} : Log("error", FALSE, m, Undefined, FALSE) /\ LogOnly
SpecDerive == InitDerive /\ [][NextDerive]_vars

\* a logger at any level, called at any level
InitLevel ==
  /\ CtxIdle /\ FilterIdle /\ MaskIdle /\ SanIdle
  /\ LogInit
  /\ bindings = EmptyObject /\ ~sanitizationEngine /\ ~fieldFilter /\ useAsyncContext
NextLevel ==
  \/ \E lvl \in MethodLevels, m \in PlainMetadataArgs, fails \in BOOLEAN :
        Log(lvl, FALSE, m, Undefined, fails) /\ LogOnly
  \/ \E lvl \in Levels : SetLevel(lvl) /\ LogOnly
  \/ \E lvl \in Levels :
        Reconfigure([level |-> lvl, transport |-> "unset", addMaskingRule |-> <<>>,
                     loggingMatrix |-> <<>>], "absent")
SpecLevel == InitLevel /\ [][NextLevel]_vars

\* --------------------------------------------------------------------------
\* Claims
\* --------------------------------------------------------------------------
\* C3: a scope entered inside another scope starts with exactly its own
\* initialData, and when it exits the enclosing scope's store holds, for every
\* key, the value it held when the inner scope was entered; while the inner
\* scope runs, no enclosing store changes.
C3_NestedIsolation ==
  \A t \in Tasks :
    /\ ev[t].type = "enter" => getAll(t) = ev[t].expect
    /\ ev[t].type = "exit" /\ depth[t] > 0 => getAll(t) = ev[t].expect
    /\ \A d \in 1..MaxDepth : d < depth[t] => maps[t][d] = snap[t][d + 1]

\* C3 witness: an inner scope that changed k has exited and the outer scope,
\* which had set k itself, is current again.
C3_Witness ==
  \E t \in Tasks :
    /\ ev[t].type = "exit"
    /\ depth[t] = 1
    /\ get(t, "k") = Val(t, "outer")
    /\ ev[t].inner["k"] = Val(t, "inner")

\* C4: whatever the interleaving of the tasks, a get/getAll of a task inside
\* its scope returns only values the task wrote itself, and returns exactly
\* what the task put into that scope (initialData, set, clear,
\* getCorrelationId).
C4_TaskIsolation ==
  \A t \in Tasks :
    isActive(t) =>
      /\ \A k \in CtxKeys : get(t, k) # Absent => get(t, k).o = t
      /\ getAll(t) = mine[t][depth[t]]

\* C4 witness: both tasks are inside a scope and hold different values under
\* the same key.
C4_Witness ==
  /\ \A t \in Tasks : isActive(t)
  /\ get("A", "k") = Val("A", "outer")
  /\ get("B", "k") = Val("B", "inner")

\* the value the record has for key k (the last field of that name), and
\* whether it has one
HasField(fields, k) == \E i \in 1..Len(fields) : fields[i][1] = k
FieldValue(fields, k) ==
  fields[CHOOSE i \in 1..Len(fields) :
           fields[i][1] = k /\ \A j \in (i + 1)..Len(fields) : fields[j][1] # k][2]

\* C1: in every emitted record, a key that is in more than one of the active
\* context store, the bindings and the metadata has the value of the metadata
\* when the metadata has it, and of the bindings otherwise.
C1_Precedence ==
  lCall.emitted =>
    \A k \in LogKeys :
      LET inContext == lCall.store.active /\ k \in DOMAIN lCall.store.map
          inBindings == k \in DOMAIN bindings
          inMetadata == k \in DOMAIN lCall.metadata
      IN (inContext /\ inBindings) \/ (inContext /\ inMetadata) \/ (inBindings /\ inMetadata)
           => /\ HasField(lCall.fields, k)
              /\ FieldValue(lCall.fields, k) =
                   IF inMetadata THEN lCall.metadata[k] ELSE bindings[k]

\* C2: no call of a logging method propagates an exception to its caller.
C2_NeverThrows ==
  lCall.called => ~lCall.threw

\* C7: for a logger with a logging matrix, a record emitted at a level from
\* inside a scope has, of the keys only the context store has, only those
\* the matrix allows for that level.
C7_MatrixFiltersRecord ==
  lCall.emitted /\ fieldFilter /\ lCall.store.active =>
    \A k \in DOMAIN lCall.store.map \ (DOMAIN bindings \cup DOMAIN lCall.metadata) :
      HasField(lCall.fields, k)
        => k \in DOMAIN filterContext(matrix, lCall.store.map, lCall.level)

\* C5: the rule list only grows: every rule addRule once accepted is still in
\* the list, at the same position and with the same fields.
C5_RulesOnlyGrow ==
  /\ Len(accepted) <= Len(rules)
  /\ \A i \in 1..Len(accepted) : rules[i] = accepted[i]

\* C6: addRule throws for every pattern in which a quantified group holds a
\* quantifier, such as (a+)+$, and then leaves the rule list as it was; it
\* accepts password|passwd and appends exactly one rule; under either
\* validation method.
C6_AddRuleValidates ==
  mCall.called =>
    /\ StarHeightAboveOne(mCall.pattern) => mCall.threw /\ mCall.after = mCall.before
    /\ mCall.pattern = <<"p", "a", "s", "s", "w", "o", "r", "d", "|", "p", "a", "s", "s", "w", "d">> =>
         /\ ~mCall.threw
         /\ Len(mCall.after) = Len(mCall.before) + 1
         /\ SubSeq(mCall.after, 1, Len(mCall.before)) = mCall.before

RECURSIVE NoEscape(_)
\* no ESC and no CSI character in any string or property name of a value
NoEscape(v) ==
  /\ \A i \in 1..Len(v.s) : v.s[i] \notin EscChars
  /\ \A i \in 1..Len(v.kids) :
       /\ \A j \in 1..Len(v.kids[i].k) : v.kids[i].k[j] \notin EscChars
       /\ NoEscape(v.kids[i].v)

\* C9: for a tree of primitives, arrays and plain objects, no ESC and no CSI
\* character remains anywhere in the sanitizer's output.
C9_NoEscapeInOutput ==
  sCall.done /\ ~sMasking /\ IsPlain(sCall.in) => NoEscape(sCall.out)

RECURSIVE OpaqueKept(_, _)
\* every class instance or Date of value a is, at the same place, in value b
OpaqueKept(a, b) ==
  IF a.kind = "inst" THEN b = a
  ELSE /\ b.kind = a.kind
       /\ Len(b.kids) = Len(a.kids)
       /\ \A i \in 1..Len(a.kids) : OpaqueKept(a.kids[i].v, b.kids[i].v)

\* C10: process returns every class instance, Date or other non-plain object
\* of the data identity-equal and unmodified, also when a masking engine is
\* configured.
C10_OpaqueUntouched ==
  sCall.done => OpaqueKept(sCall.in, sCall.out)

\* C8: filterContext returns the context unchanged when the matrix has no
\* entries or the resolved allow-list contains '*', the empty record when the
\* resolved allow-list is empty or absent, and otherwise exactly the entries
\* whose lower-cased key is in the lower-cased allow-list, keys and values as
\* they were; the resolved allow-list is the level's own entry when it has
\* one and the default entry otherwise.
C8_Resolved(m, level) ==
  IF level \in DOMAIN m THEN {m[level]}
  ELSE IF "default" \in DOMAIN m THEN {m["default"]}
  ELSE {}

C8_FilterContext ==
  fCall.called =>
    LET c == fCall.context
        r == fCall.result
        lists == C8_Resolved(fCall.matrix, fCall.level)
    IN IF DOMAIN fCall.matrix = {} THEN r = c
       ELSE IF lists = {} \/ lists = {<<>>} THEN r = EmptyObject
       ELSE IF \E l \in lists : \E i \in 1..Len(l) : l[i] = "*" THEN r = c
       ELSE /\ DOMAIN r \subseteq DOMAIN c
            /\ \A k \in DOMAIN r : r[k] = c[k]
            /\ \A k \in DOMAIN c :
                 k \in DOMAIN r <=>
                   \E l \in lists : \E i \in 1..Len(l) :
                     toLowerCase(l[i]) = toLowerCase(k)

\* C8 witness: a proper filtering that kept a key by case-insensitive match
\* and dropped another.
C8_Witness ==
  /\ fCall.called
  /\ "CorrelationId" \in DOMAIN fCall.result
  /\ "secret" \in DOMAIN fCall.context
  /\ "secret" \notin DOMAIN fCall.result
  /\ fCall.level \notin DOMAIN fCall.matrix

\* a logger with or without a field filter: its matrix is updated through
\* Logger.reconfigure and through the filter itself, and the filter is called
MatrixLists == {<<"*">>, <<"correlationId">>}
MatrixUpdates == UNION {[S -> MatrixLists] : S \in SUBSET {"default", "error"}}
InitMatrix ==
  /\ CtxIdle /\ MaskIdle /\ SanIdle /\ LogInit
  /\ bindings = EmptyObject /\ useAsyncContext /\ ~sanitizationEngine
  /\ matrix \in (IF fieldFilter
                   THEN {[default |-> <<"correlationId">>, info |-> <<"*">>],
                         [error |-> <<"correlationId">>]}
                   ELSE {EmptyObject})
  /\ fCall = NoCall
NextMatrix ==
  \/ \E m \in MatrixUpdates :
        Reconfigure([level |-> "unset", transport |-> "unset", addMaskingRule |-> <<>>,
                     loggingMatrix |-> <<m>>], "absent")
  \/ \E m \in MatrixUpdates : fieldFilter /\ FilterReconfigure(m) /\ FilterOnly
  \/ \E l \in {"info", "error"} :
        /\ fieldFilter
        /\ FilterContext([correlationId |-> "c1", secret |-> "s"], l)
        /\ FilterOnly
SpecMatrix == InitMatrix /\ [][NextMatrix]_vars

\* a sanitizer with a masking engine whose rules mask pwd as a password and
\* tok as a token; the records hold strings with and without escape
\* sequences, short and long, in plain objects and in a class instance
SanMaskRules ==
  {<<[pattern |-> <<"p", "w", "d">>, strategy |-> "password", preserveLength |-> TRUE,
      maskChar |-> DefaultMaskChar, global |-> FALSE, lastIndex |-> 0]>>,
   <<[pattern |-> <<"t", "o", "k">>, strategy |-> "token", preserveLength |-> TRUE,
      maskChar |-> DefaultMaskChar, global |-> FALSE, lastIndex |-> 0],
     [pattern |-> <<"p", "w", "d">>, strategy |-> "password", preserveLength |-> TRUE,
      maskChar |-> DefaultMaskChar, global |-> FALSE, lastIndex |-> 0]>>}
SanMaskStrings ==
  StringsOver({"ESC", "[", "x"}, MaxStrLen - 1)
    \cup {<<"ESC", "[", "3", "m", "x">>,
          <<"ESC", "[", "3", "m", "1", "2", "3", "4", "5", "6", "7", "8", "9">>}
SanMaskTrees ==
  {Obj(<<Prop(k, Str(s))>>) : k \in {<<"p", "w", "d">>, <<"t", "o", "k">>},
                              s \in SanMaskStrings}
    \cup {Obj(<<Prop(<<"p", "w", "d">>, Str(<<"ESC", "[", "3", "m", "x">>)),
                Prop(<<"t", "o", "k">>, Str(<<"ESC", "x">>))>>),
          Obj(<<Prop(<<"k">>, Inst(1, <<Prop(<<"p", "w", "d">>, Str(<<"ESC", "x">>))>>))>>)}
InitSanMask ==
  /\ CtxIdle /\ FilterIdle /\ LogIdle
  /\ sMasking = TRUE /\ sCall = [done |-> FALSE, in |-> Num, out |-> Num]
  /\ rules \in SanMaskRules /\ accepted = rules /\ initialized = FALSE
  /\ safeRegexLib = FALSE /\ enableDefaultRules = FALSE /\ mCall = NoAddRule
  /\ pCall = NoProcess /\ scan = NoScan
NextSanMask ==
  \E meta \in SanMaskTrees :
    SanitizerProcess(meta) /\ UNCHANGED <<ctxVars, filterVars, logVars>>
SpecSanMask == InitSanMask /\ [][NextSanMask]_vars

\* a process call on a record of strings, and addRule calls made while it
\* runs (from a custom mask function) and between calls
ReentrantRules ==
  {[pattern |-> <<"p", "w", "d">>, strategy |-> "password", preserveLength |-> "unset",
    flags |-> "i"],
   [pattern |-> <<"k">>, strategy |-> "custom", preserveLength |-> "false",
    flags |-> "string"],
   [pattern |-> <<"(", "a", "+", ")", "+", "$">>, strategy |-> "password",
    preserveLength |-> "unset", flags |-> "string"]}
ReentrantMetas ==
  {Obj(<<Prop(<<"k">>, Str(<<"1">>)), Prop(<<"p", "w", "d">>, Str(<<"2", "3">>))>>),
   Obj(<<Prop(<<"p", "w", "d">>, Str(<<"1">>)), Prop(<<"k">>, Str(<<"2">>)),
         Prop(<<"p", "w", "d">>, Str(<<"3">>))>>)}
InitReentrant == MaskInit /\ ~enableDefaultRules /\ CtxIdle /\ FilterIdle /\ SanIdle /\ LogIdle
NextReentrant ==
  \/ \E r \in ReentrantRules : AddRule(r) /\ MaskOnly
  \/ \E meta \in ReentrantMetas : ProcessStart(meta) /\ MaskOnly
  \/ ProcessField /\ MaskOnly
  \/ ProcessReturn /\ MaskOnly
SpecReentrant == InitReentrant /\ [][NextReentrant]_vars

\* loggers with and without context propagation, sanitizer, masking engine
\* and logging matrix; the data holds an escape sequence and a secret
Colored == Str(<<"ESC", "[", "3", "m", "x">>)
PipelineRules ==
  <<[pattern |-> Secret, strategy |-> "password", preserveLength |-> TRUE,
     maskChar |-> DefaultMaskChar, global |-> FALSE, lastIndex |-> 0]>>
InitPipeline ==
  /\ CtxIdle
  /\ bindings \in {EmptyObject, [b |-> Colored]}
  /\ loggerLevel = "info" /\ transport = "T1"
  /\ useAsyncContext \in BOOLEAN /\ sanitizationEngine \in BOOLEAN
  /\ sMasking \in (IF sanitizationEngine THEN BOOLEAN ELSE {FALSE})
  /\ maskingEngine \in (IF sMasking THEN {"shared"} ELSE {"none", "own"})
  /\ ownRules = (IF maskingEngine = "own" THEN PipelineRules ELSE <<>>)
  /\ rules = (IF sMasking THEN PipelineRules ELSE <<>>) /\ accepted = rules
  /\ fieldFilter \in BOOLEAN
  /\ matrix = (IF fieldFilter THEN [default |-> <<"correlationId">>] ELSE EmptyObject)
  /\ fCall = NoCall
  /\ initialized = FALSE /\ safeRegexLib = FALSE /\ enableDefaultRules = FALSE
  /\ mCall = NoAddRule /\ pCall = NoProcess /\ scan = NoScan
  /\ sCall = [done |-> FALSE, in |-> Num, out |-> Num]
  /\ closeStarted = {} /\ failedBefore = FALSE
  /\ lCall = NoLog /\ dCall = NoDerive /\ rCall = NoReconfigure /\ parentTransport = "none"
NextPipeline ==
  \/ \E noArgs \in BOOLEAN,
        m \in {EmptyObject, [a |-> Colored], [secret |-> Colored]},
        st \in {Undefined, StoreOf([a |-> V("1")]),
                StoreOf([correlationId |-> Colored, secret |-> V("s")])} :
        Log("info", noArgs, m, st, FALSE) /\ LogOnly
  \/ WithoutContext /\ LogOnly
SpecPipeline == InitPipeline /\ [][NextPipeline]_vars

\* a masking engine with the default rules processes records that hold a
\* password, alone or with a token, short or long, before or after it
Password == <<"p", "a", "s", "s", "w", "o", "r", "d">>
Token == <<"t", "o", "k", "e", "n">>
PasswordValues == {Str(<<"h", "u", "n", "t", "e", "r", "2">>), Str(<<"p", "w">>)}
TokenValues ==
  {Str(<<"a", "b", "c">>), Str(<<"1", "2", "3", "4", "5", "6", "7", "8", "9">>),
   Str(<<"1", "2", "3", "4", "5", "6", "7", "8", "9", "0">>)}
DefaultMetas ==
  {Obj(<<Prop(Password, p)>>) : p \in PasswordValues}
    \cup {Obj(<<Prop(Password, p), Prop(Token, t)>>) : p \in PasswordValues, t \in TokenValues}
    \cup {Obj(<<Prop(Token, t), Prop(Password, p)>>) : p \in PasswordValues, t \in TokenValues}
    \cup {Obj(<<Prop(<<"k">>, Obj(<<Prop(Password, p)>>)), Prop(Token, t)>>) :
            p \in PasswordValues, t \in TokenValues}
InitDefaults == MaskInit /\ enableDefaultRules /\ CtxIdle /\ FilterIdle /\ SanIdle /\ LogIdle
NextDefaults == \E meta \in DefaultMetas : Process(meta) /\ MaskOnly
SpecDefaults == InitDefaults /\ [][NextDefaults]_vars

\* log calls whose store, bindings or metadata have a key named level
InitRecord ==
  /\ LogInit /\ CtxIdle /\ MaskIdle
  /\ bindings \in {EmptyObject, [a |-> V("2")], [level |-> V("x")]}
  /\ ~fieldFilter /\ matrix = EmptyObject /\ fCall = NoCall
  /\ sMasking = FALSE /\ sCall = [done |-> FALSE, in |-> Num, out |-> Num]
NextRecord ==
  \/ \E noArgs \in BOOLEAN,
        m \in {EmptyObject, [a |-> V("3")], [level |-> V("y")]},
        st \in {Undefined, StoreOf([a |-> V("1")]), StoreOf([level |-> V("z")])} :
        Log("info", noArgs, m, st, FALSE) /\ LogOnly
  \/ WithoutContext /\ LogOnly
SpecRecord == InitRecord /\ [][NextRecord]_vars

\* reconfigure calls that pass a masking rule, safe or unsafe, alone or with
\* a level, a transport and a logging matrix, on loggers with and without
\* engines
AtomicRules ==
  {[pattern |-> p, strategy |-> "password", preserveLength |-> "unset", flags |-> "string"] :
     p \in {Secret, <<"(", "a", "*", ")", "*">>}}
InitAtomic ==
  /\ CtxIdle /\ FilterIdle
  /\ bindings = EmptyObject /\ loggerLevel = "info" /\ useAsyncContext = TRUE
  /\ fieldFilter = FALSE /\ transport = "T1"
  /\ sanitizationEngine \in BOOLEAN
  /\ sMasking \in (IF sanitizationEngine THEN BOOLEAN ELSE {FALSE})
  /\ maskingEngine \in (IF sMasking THEN {"none", "shared"} ELSE {"none", "own"})
  /\ rules = (IF sMasking THEN SanRules ELSE <<>>) /\ accepted = rules
  /\ ownRules = (IF maskingEngine = "own" THEN SanRules ELSE <<>>)
  /\ initialized = FALSE /\ safeRegexLib \in BOOLEAN /\ enableDefaultRules = FALSE
  /\ mCall = NoAddRule /\ pCall = NoProcess /\ scan = NoScan
  /\ sCall = [done |-> FALSE, in |-> Num, out |-> Num]
  /\ closeStarted = {} /\ failedBefore = FALSE
  /\ lCall = NoLog /\ dCall = NoDerive /\ rCall = NoReconfigure /\ parentTransport = "none"
NextAtomic ==
  \E lvl \in {"unset", "error"}, t \in {"unset", "T2"}, r \in AtomicRules,
     m \in {<<>>, <<[default |-> <<"correlationId">>]>>}, ck \in {"absent", "resolves"} :
    Reconfigure([level |-> lvl, transport |-> t, addMaskingRule |-> <<r>>,
                 loggingMatrix |-> m], ck)
SpecAtomic == InitAtomic /\ [][NextAtomic]_vars

\* a logger and the logger it was derived from: both log and switch
\* transports
InitClosed == LogIdle /\ CtxIdle /\ FilterIdle /\ MaskIdle /\ SanIdle
NextClosed ==
  \/ \E m \in PlainMetadataArgs : Log("info", FALSE, m, Undefined, FALSE) /\ LogOnly
  \/ \E b \in ChildBindingsArgs : Child(b) /\ LogOnly
  \/ \E t \in Transports, ck \in {"absent", "resolves"} :
        Reconfigure([level |-> "unset", transport |-> t, addMaskingRule |-> <<>>,
                     loggingMatrix |-> <<>>], ck)
  \/ \E t \in Transports, ck \in {"absent", "resolves"} :
        ParentReconfigure(t, ck) /\ LogOnly
SpecClosed == InitClosed /\ [][NextClosed]_vars

\* the record of the last log call can be serialised: no BigInt in it
CanSerialize ==
  /\ \A k \in DOMAIN lCall.metadata : Serializable(lCall.metadata[k])
  /\ \A k \in DOMAIN bindings : Serializable(bindings[k])

\* C11: when transport.log throws during a log call, the error is caught and
\* reported on the fallback error channel, the caller sees a normal return,
\* the call leaves the logger's state unchanged, and every later log call
\* that is enabled is still handed to the transport.
C11_TransportFailureContained ==
  /\ [](lCall.called /\ lCall.failed => ~lCall.threw /\ lCall.reported)
  /\ [](lCall.called /\ lCall.afterFailure /\ CanSerialize
          /\ isLevelEnabled(lCall.level, lCall.configured)
        => lCall.to \in Transports /\ ~lCall.threw)
  /\ [][lCall'.failed /\ lCall' # lCall => UNCHANGED logConfig]_vars

\* C11 witness: after a log call whose transport threw, a later log call has
\* delivered its record to the transport.
C11_Witness ==
  lCall.called /\ lCall.afterFailure /\ ~lCall.failed /\ lCall.emitted /\ lCall.to = "T1"

\* the weight the levels are documented with
C12_Weight(l) ==
  CASE l = "silent" -> 0 [] l = "trace" -> 10 [] l = "debug" -> 20 [] l = "info" -> 30
    [] l = "warn" -> 40 [] l = "error" -> 50 [] l = "fatal" -> 60

\* C12: a log call at level L on a logger whose current level is C (the level
\* the constructor, setLevel or reconfigure set last) hands a record to the
\* transport exactly when neither is silent and weight(L) >= weight(C); a
\* disabled call emits nothing and reports nothing.
C12_LevelGate ==
  /\ [](lCall.called /\ CanSerialize =>
          /\ lCall.to \in Transports <=>
               /\ lCall.level # "silent" /\ lCall.configured # "silent"
               /\ C12_Weight(lCall.level) >= C12_Weight(lCall.configured)
          /\ lCall.to = "none" =>
               ~lCall.emitted /\ lCall.fields = <<>> /\ ~lCall.reported /\ ~lCall.threw)
  /\ [][lCall' # lCall => lCall'.configured = loggerLevel /\ loggerLevel' = loggerLevel]_vars
  /\ [][rCall' # rCall /\ rCall'.level # "unset" => loggerLevel' = rCall'.level]_vars

\* C12 witness: after reconfigure({ level: 'warn' }) a warn call was handed to
\* the transport.
C12_Witness ==
  /\ rCall.called /\ rCall.level = "warn"
  /\ lCall.called /\ lCall.level = "warn" /\ lCall.configured = "warn" /\ lCall.emitted

\* C13: two process calls with the same record and no addRule between them
\* return equal outputs, whatever accepted patterns the rules have.
C13_ProcessDeterministic ==
  pCall.called /\ pCall.repeated => pCall.out = pCall.prevOut

\* C14: with preserveLength = true every strategy returns, for every input
\* string, the empty and the very short ones included, a masked value of
\* exactly the input's length.
C14_PreservesLength ==
  pCall.called /\ Len(pCall.before) = 1 /\ pCall.before[1].preserveLength =>
    /\ ~pCall.threw
    /\ Len(pCall.out.kids[1].v.s) = Len(pCall.in.kids[1].v.s)

\* what a string field named key is to become under the rules rs: the first
\* rule in insertion order whose pattern matches the name masks it, and
\* without such a rule it stays as it is
C15_Expected(rs, key, value) ==
  IF \E j \in 1..Len(rs) : RegexTest(rs[j].pattern, key)
    THEN Str(applyStrategy(value.s,
               rs[CHOOSE j \in 1..Len(rs) :
                    /\ RegexTest(rs[j].pattern, key)
                    /\ \A h \in 1..(j - 1) : ~RegexTest(rs[h].pattern, key)]))
    ELSE value

\* the string fields of the object out are those of the object in, each as
\* C15_Expected gives it
C15_FieldsMasked(rs, in, out) ==
  /\ Len(out.kids) = Len(in.kids)
  /\ \A i \in 1..Len(in.kids) :
        /\ out.kids[i].k = in.kids[i].k
        /\ in.kids[i].v.kind = "str" =>
              out.kids[i].v = C15_Expected(rs, in.kids[i].k, in.kids[i].v)

C16_DerivedLoggerIsNew ==
  dCall.op # "none" =>
    /\ ~dCall.same
    /\ dCall.after = dCall.before
    /\ dCall.result.bindings = Spread(dCall.before.bindings, dCall.given)

\* C17: once reconfigure({ transport: T2 }) is over, the logger's transport is
\* T2 and every later record is handed to T2, none to the previous transport;
\* the previous transport's close() has been started; whatever way that close
\* fails, the failure is swallowed: reconfigure does not throw and later log
\* calls are not affected.
C17_TransportSwitched ==
  /\ [](rCall.called /\ rCall.transport # "unset" =>
          /\ ~rCall.threw
          /\ transport = rCall.transport
          /\ rCall.closeKind # "absent" => rCall.previous \in closeStarted)
  /\ [][lCall' # lCall => lCall'.to \in {"none", transport}]_vars
  /\ [](lCall.called /\ CanSerialize /\ isLevelEnabled(lCall.level, lCall.configured)
          => lCall.to \in Transports)

\* C18: after reconfigure({ addMaskingRule: r }) has returned normally on a
\* logger with context propagation enabled, every later log call masks each
\* string field whose name matches r, whatever engines the logger was created
\* with.
C18_AddedRuleMasks ==
  [][(/\ lCall' # lCall /\ lCall'.emitted /\ useAsyncContext
      /\ rCall.called /\ ~rCall.threw /\ rCall.addMaskingRule # <<>>
      /\ rCall.addMaskingRule[1].pattern = Secret
      /\ HasField(lCall'.fields, "secret"))
     => FieldValue(lCall'.fields, "secret") = V("*")]_vars

C20_OutsideScope ==
  /\ [](\A t \in Tasks :
          /\ depth[t] = 0 =>
                /\ \A k \in CtxKeys : get(t, k) = Absent
                /\ getAll(t) = EmptyMap
                /\ ~isActive(t)
                /\ ev[t].type = "cid" => ev[t].id = ""
          /\ ev[t].type = "enter" => getAll(t) = ev[t].expect)
  /\ [][\A t \in Tasks :
          depth[t] = 0 /\ depth'[t] = 0 /\ ev'[t] # ev[t] => maps' = maps]_vars

\* C20 witness: a task outside any scope has called getCorrelationId while
\* auto-generation is enabled and got ''; the other task is inside a scope
\* that holds a correlation id.
C20_Witness ==
  /\ depth["A"] = 0 /\ ev["A"].type = "cid" /\ ev["A"].auto /\ ev["A"].id = ""
  /\ depth["B"] > 0 /\ get("B", correlationIdKey) # Absent

\* C21: every enabled log call made inside a scope whose store has an entry,
\* on a logger with context propagation enabled and no logging matrix, emits
\* a record that contains every entry of the store, whatever arguments the
\* call is given.
C21_ContextInEveryRecord ==
  [][(/\ lCall' # lCall /\ lCall'.called
      /\ isLevelEnabled(lCall'.level, loggerLevel)
      /\ useAsyncContext /\ ~fieldFilter
      /\ lCall'.store.active /\ DOMAIN lCall'.store.map # {})
     => /\ lCall'.emitted
        /\ \A k \in DOMAIN lCall'.store.map : HasField(lCall'.fields, k)]_vars

\* the matrix after is the matrix before with every entry of newMatrix put
\* over it
C22_Merged(before, newMatrix, after) ==
  /\ DOMAIN after = DOMAIN before \cup DOMAIN newMatrix
  /\ \A k \in DOMAIN newMatrix : after[k] = newMatrix[k]
  /\ \A k \in DOMAIN before \ DOMAIN newMatrix : after[k] = before[k]

\* C22: FieldFilter.reconfigure(newMatrix) gives each level (or default)
\* named in newMatrix the allow-list of newMatrix and leaves every other
\* level's allow-list as it was; a filterContext call works on the matrix as
\* a whole, as it is when the call is made; Logger.reconfigure({loggingMatrix})
\* creates the filter with that matrix when the logger has none and merges
\* into the existing filter otherwise.
C22_MatrixMerge ==
  /\ [][rCall' # rCall /\ rCall'.loggingMatrix # <<>> /\ ~rCall'.threw
          => /\ fieldFilter'
             /\ IF fieldFilter THEN C22_Merged(matrix, rCall'.loggingMatrix[1], matrix')
                ELSE matrix' = rCall'.loggingMatrix[1]]_vars
  /\ [][rCall' = rCall /\ matrix' # matrix
          => \E m \in MatrixUpdates : C22_Merged(matrix, m, matrix')]_vars
  /\ [][fCall' # fCall /\ fCall'.called
          => /\ matrix' = matrix /\ fCall'.matrix = matrix
             /\ fCall'.result = filterContext(matrix, fCall'.context, fCall'.level)]_vars

\* C22 witness: a reconfigure has replaced the default entry and kept the
\* info entry it did not name, and the filter has been called on the merged
\* matrix since.
C22_Witness ==
  /\ rCall.called /\ rCall.loggingMatrix # <<>> /\ fieldFilter
  /\ DOMAIN rCall.loggingMatrix[1] = {"default"}
  /\ rCall.loggingMatrix[1]["default"] = <<"*">>
  /\ matrix = [default |-> <<"*">>, info |-> <<"*">>]
  /\ fCall.called /\ fCall.matrix = matrix /\ fCall.level = "error"
  /\ fCall.result = fCall.context

RECURSIVE C23_ValuesClean(_)
\* no ESC and no CSI character in any string value of a tree
C23_ValuesClean(v) ==
  /\ \A i \in 1..Len(v.s) : v.s[i] \notin EscChars
  /\ \A i \in 1..Len(v.kids) : C23_ValuesClean(v.kids[i].v)

RECURSIVE C23_SameShape(_, _)
\* two trees with the same kinds, keys and positions
C23_SameShape(a, b) ==
  /\ a.kind = b.kind
  /\ Len(a.kids) = Len(b.kids)
  /\ \A i \in 1..Len(a.kids) :
       a.kids[i].k = b.kids[i].k /\ C23_SameShape(a.kids[i].v, b.kids[i].v)

C24_Prefix(a, b) == Len(a) <= Len(b) /\ \A i \in 1..Len(a) : a[i] = b[i]

\* C24: a process call during which addRule is called sees, at each lookup,
\* a list of rules that each have their compiled pattern, preserveLength and
\* maskChar, and that is the first part, in insertion order, of the list at
\* every later time.
C24_NoTornList ==
  \A i \in 1..Len(scan.seen) :
    /\ C24_Prefix(scan.seen[i], rules)
    /\ C24_Prefix(scan.seen[i], accepted)
    /\ \A j \in 1..Len(scan.seen[i]) :
         \E r \in ReentrantRules :
           ~addRuleThrows(safeRegexLib, r) /\ scan.seen[i][j] = addRuleEntry(r)

\* C24 witness: the second lookup of a call saw a rule that was added after
\* the first lookup, and a third rule has been added since.
C24_Witness ==
  /\ Len(scan.seen) >= 2
  /\ Len(scan.seen[1]) = 0 /\ Len(scan.seen[2]) = 1 /\ Len(rules) = 2
  /\ scan.active

\* the values key k has in the sources of a log call
C25_RawValues(k, call) ==
  {call.store.map[x] : x \in {y \in DOMAIN call.store.map : y = k /\ call.store.active}}
    \cup {bindings[x] : x \in {y \in DOMAIN bindings : y = k}}
    \cup {call.metadata[x] : x \in {y \in DOMAIN call.metadata : y = k}}

\* C25: a log call runs the field filter, the sanitizer and the masking
\* engine exactly when the logger has context propagation enabled and a
\* sanitizer: then no field of the record holds an escape character, the
\* secret field is masked when the sanitizer has a masking engine, and a key
\* only the store has is in the record only when the matrix allows it;
\* otherwise every field holds a value as it was given, and every entry of
\* the store that was read is in the record, also when the logger has a
\* masking engine or a logging matrix.
C25_PipelineActivation ==
  [][lCall' # lCall /\ lCall'.emitted =>
       LET call == lCall'
           hasContext == ~call.noArgs /\ useAsyncContext /\ call.store.active
                           /\ DOMAIN call.store.map # {}
       IN IF useAsyncContext /\ sanitizationEngine
            THEN /\ \A i \in 1..Len(call.fields) : C23_ValuesClean(call.fields[i][2])
                 /\ sMasking =>
                      \A i \in 1..Len(call.fields) :
                        call.fields[i][1] = "secret" =>
                          \A j \in 1..Len(call.fields[i][2].s) :
                            call.fields[i][2].s[j] = DefaultMaskChar
                 /\ fieldFilter /\ hasContext =>
                      \A k \in DOMAIN call.store.map
                                 \ (DOMAIN bindings \cup DOMAIN call.metadata) :
                        HasField(call.fields, k) =>
                          k \in DOMAIN filterContext(matrix, call.store.map, call.level)
          ELSE /\ \A i \in 1..Len(call.fields) :
                    call.fields[i][2] \in C25_RawValues(call.fields[i][1], call)
               /\ hasContext => \A k \in DOMAIN call.store.map : HasField(call.fields, k)
               /\ \A k \in DOMAIN bindings \cup (IF call.noArgs THEN {} ELSE DOMAIN call.metadata) :
                    HasField(call.fields, k)]_vars

\* C25 witness: a logger with a sanitizer, a masking engine and a logging
\* matrix, and context propagation disabled, has written a secret and an
\* escape sequence as they were given.
C25_Witness ==
  /\ lCall.emitted /\ ~useAsyncContext /\ sanitizationEngine /\ sMasking /\ fieldFilter
  /\ HasField(lCall.fields, "secret") /\ FieldValue(lCall.fields, "secret") = Colored
  /\ HasField(lCall.fields, "b") /\ FieldValue(lCall.fields, "b") = Colored

RECURSIVE C26_PasswordsMasked(_)
\* every string field named password of a tree holds mask characters only
C26_PasswordsMasked(v) ==
  \A i \in 1..Len(v.kids) :
    /\ v.kids[i].k = Password /\ v.kids[i].v.kind = "str" =>
         \A j \in 1..Len(v.kids[i].v.s) : v.kids[i].v.s[j] = DefaultMaskChar
    /\ C26_PasswordsMasked(v.kids[i].v)

\* C26: with the default rules, every string field named password in the
\* output of process holds mask characters only, whatever other fields the
\* record has.
C26_PasswordAlwaysMasked ==
  pCall.called => C26_PasswordsMasked(pCall.out)

\* C27: every emitted record has each key at most once, and its timestamp,
\* level, message and service fields hold the values the logger computed.
C27_BaseFieldsUnique ==
  [][lCall' # lCall /\ lCall'.emitted =>
       LET record == recordOf(lCall')
       IN /\ \A i, j \in 1..Len(record) : record[i][1] = record[j][1] => i = j
          /\ FieldValue(record, "level") = Str(<<lCall'.level>>)
          /\ FieldValue(record, "timestamp") = Num
          /\ FieldValue(record, "service") = Str(<<"svc">>)]_vars

\* the keys a log call on the pipeline path has to write: those of the
\* metadata, of the bindings, and of the context the matrix permits at the
\* call's level
C28_Keys(call) ==
  LET hasContext == ~call.noArgs /\ call.store.active /\ DOMAIN call.store.map # {}
      permitted == IF ~hasContext THEN EmptyObject
                   ELSE IF fieldFilter THEN filterContext(matrix, call.store.map, call.level)
                   ELSE call.store.map
  IN DOMAIN call.metadata \cup DOMAIN bindings \cup DOMAIN permitted

\* C28: on the pipeline path every key of the call's metadata, of the
\* logger's bindings and of the permitted context is in the emitted record,
\* also a key that two or three of them have.
C28_NoKeyLost ==
  [][lCall' # lCall /\ lCall'.emitted /\ useAsyncContext /\ sanitizationEngine
       => \A k \in C28_Keys(lCall') : HasField(lCall'.fields, k)]_vars

\* C29: a reconfigure call that throws because its masking rule is rejected
\* leaves the logger as it was: level, transport, engines, rules and logging
\* matrix are unchanged and no transport has been closed.
C29_FailedReconfigureChangesNothing ==
  [][rCall' # rCall /\ rCall'.threw /\ rCall'.addMaskingRule # <<>>
       /\ rCall'.closeKind # "throws"
       => UNCHANGED <<logConfig, matrix, rules, sMasking, closeStarted>>]_vars

\* C30: no log call hands a record to a transport whose close() a
\* reconfigure has called.
C30_NoWriteAfterClose ==
  [][lCall' # lCall /\ lCall'.to \in Transports => lCall'.to \notin closeStarted]_vars

====
